---- MODULE Spec2Model ----
(***************************************************************************)
(* Weekly timetable scheduling engine of Time_table/timetable_generator.py *)
(* (slot model, grid store, free-day marker, lock and force placers, the   *)
(* per-faculty driver) as a state machine.  Cells are the strings the      *)
(* program writes; text predicates are computed on those strings.          *)
(***************************************************************************)
EXTENDS Integers, Sequences, FiniteSets, TLC

(***************************************************************************)
(* Text helpers (Python str operations used by the program)                *)
(***************************************************************************)

\* needle in text
Contains(needle, text) ==
  \E i \in 1..(Len(text) - Len(needle) + 1) :
     SubSeq(text, i, i + Len(needle) - 1) = needle

UpperLetters == <<"A","B","C","D","E","F","G","H","I","J","K","L","M",
                  "N","O","P","Q","R","S","T","U","V","W","X","Y","Z">>
LowerLetters == <<"a","b","c","d","e","f","g","h","i","j","k","l","m",
                  "n","o","p","q","r","s","t","u","v","w","x","y","z">>

LowerChar(c) ==
  IF \E i \in 1..26 : UpperLetters[i] = c
    THEN LowerLetters[CHOOSE i \in 1..26 : UpperLetters[i] = c]
    ELSE c

UpperChar(c) ==
  IF \E i \in 1..26 : LowerLetters[i] = c
    THEN UpperLetters[CHOOSE i \in 1..26 : LowerLetters[i] = c]
    ELSE c

RECURSIVE Lower(_)
Lower(s) == IF s = "" THEN "" ELSE LowerChar(Head(s)) \o Lower(Tail(s))

RECURSIVE Upper(_)
Upper(s) == IF s = "" THEN "" ELSE UpperChar(Head(s)) \o Upper(Tail(s))

\* str.replace(" ", "")
RECURSIVE RemoveSpaces(_)
RemoveSpaces(s) ==
  IF s = "" THEN ""
  ELSE IF Head(s) = " " THEN RemoveSpaces(Tail(s))
  ELSE Head(s) \o RemoveSpaces(Tail(s))

RECURSIVE LStrip(_)
LStrip(s) == IF s # "" /\ Head(s) = " " THEN LStrip(Tail(s)) ELSE s

RECURSIVE RStrip(_)
RStrip(s) ==
  IF s # "" /\ SubSeq(s, Len(s), Len(s)) = " "
    THEN RStrip(SubSeq(s, 1, Len(s) - 1))
    ELSE s

\* str.strip()
Strip(s) == RStrip(LStrip(s))

\* str.split()[0] of a text that holds a non-blank character
FirstToken(s) ==
  LET t == LStrip(s)
      stops == {i \in 1..Len(t) : SubSeq(t, i, i) = " "}
  IN  IF stops = {} THEN t
      ELSE SubSeq(t, 1, (CHOOSE i \in stops : \A j \in stops : i <= j) - 1)

Digits == <<"0","1","2","3","4","5","6","7","8","9">>
IsDigit(c) == \E i \in 1..10 : Digits[i] = c
DigitVal(c) == (CHOOSE i \in 1..10 : Digits[i] = c) - 1

\* \d{1,2}
IsShortNumber(s) ==
  /\ Len(s) \in {1, 2}
  /\ \A i \in 1..Len(s) : IsDigit(SubSeq(s, i, i))

NumberVal(s) ==
  IF Len(s) = 1 THEN DigitVal(s)
  ELSE 10 * DigitVal(SubSeq(s, 1, 1)) + DigitVal(SubSeq(s, 2, 2))

\* re.sub(r'\s+', '', s.strip()).upper()
normalize_token(s) == Upper(RemoveSpaces(Strip(s)))

(***************************************************************************)
(* Configuration                                                           *)
(***************************************************************************)

DAYS == <<"Mon", "Tue", "Wed", "Thu", "Fri", "Sat">>
DaySet == {"Mon", "Tue", "Wed", "Thu", "Fri", "Sat"}

MORNING == "8-3"
LATE == "10-5"
Shifts == {MORNING, LATE}
\* iteration order of the dicts SHIFT_SLOTS and CANONICAL_MAP
ShiftOrder == <<MORNING, LATE>>

SHIFT_SLOTS(shift) ==
  IF shift = MORNING
    THEN << "8-8:45", "8:45-9:45",
            "9:45-10:00 Short Break",
            "10:00-11:00", "11:00-12:00",
            "12:00-12:45 Lunch Break",
            "12:45-1:45", "1:45-2:45" >>
    ELSE << "10:00-11:00", "11:00-12:00",
            "12:00-12:45 Lunch Break",
            "12:45-1:45", "1:45-2:45",
            "2:45-3:00 Short Break",
            "3-4", "4-5" >>

SlotSet(shift) == {SHIFT_SLOTS(shift)[i] : i \in 1..Len(SHIFT_SLOTS(shift))}
AllLabels == SlotSet(MORNING) \cup SlotSet(LATE)

FREE_DAY_LABEL == "COMPETITIVE EXAM/SUNCLUBS/SPORT"
MERGE == "MERGE"

\* the texts the placers and the free-day marker write
TheoryFacText(subject, sem, div) ==
  subject \o " (Sem" \o sem \o " Div" \o div \o ")"
TheoryDivText(subject, fname) ==
  subject \o " (" \o fname \o ")"
LabFacText(subject, sem, div, batch) ==
  subject \o " Lab (Sem" \o sem \o " Div" \o div \o ") [" \o batch \o "]"
LabDivText(subject, fname, batch) ==
  subject \o " Lab (" \o fname \o ") [" \o batch \o "]"
HolidayText(sem, div) ==
  FREE_DAY_LABEL \o " (Sem" \o sem \o " Div" \o div \o ")"

\* names the inputs are drawn from
SubjectNames == {"Maths", "DSP"}
FacultyNames == {"MSK", "PQR"}
BatchNames == {"B1", "B2"}
Sem == "3"
DivA == "A"
DivB == "B"
\* a division code as the web form can send it, not normalized
DivRaw == "a"
DivNames == {DivA, DivB, DivRaw}

\* every text a cell can hold under these inputs
CellTexts ==
  {"", MERGE} \cup AllLabels
  \cup {HolidayText(Sem, d) : d \in DivNames}
  \cup {TheoryFacText(s, Sem, d) : s \in SubjectNames, d \in DivNames}
  \cup {TheoryDivText(s, f) : s \in SubjectNames, f \in FacultyNames}
  \cup {LabFacText(s, Sem, d, b) : s \in SubjectNames, d \in DivNames, b \in BatchNames}
  \cup {LabDivText(s, f, b) : s \in SubjectNames, f \in FacultyNames, b \in BatchNames}

(***************************************************************************)
(* Tests on one text                                                       *)
(***************************************************************************)

\* "Break" in s or "Lunch" in s
IsInert(s) == Contains("Break", s) \/ Contains("Lunch", s)

\* free_slot on the text of the cell: every branch after the empty test
\* returns False
TextIsFree(val) == Strip(val) = ""

\* the test of day_has_subject on one cell
TextHasSubject(v, subject) ==
  LET target == Lower(Strip(subject))
  IN  IF target = "" THEN FALSE ELSE Contains(target, Lower(v))

\* the test of day_has_division on one cell
TextHasDivision(v, sem, div) ==
  LET needle_sem == Lower("sem" \o sem)
      needle_div == Lower("div" \o div)
      low == RemoveSpaces(Lower(v))
  IN  Contains(needle_sem, low) /\ Contains(needle_div, low)

\* The value the program uses for "no canonical slot" (None)
NoCanon == <<>>

\* variant of parse_time_token that leaves the hours before 8 as they are
parse_time_token_NoAfternoon(tok) ==
  LET t == Strip(tok)
      colons == {i \in 1..Len(t) : SubSeq(t, i, i) = ":"}
  IN  IF colons = {}
        THEN IF IsShortNumber(t) THEN NumberVal(t) * 60 ELSE -1
      ELSE LET p == CHOOSE i \in colons : \A j \in colons : i <= j
               h == SubSeq(t, 1, p - 1)
               m == SubSeq(t, p + 1, Len(t))
           IN  IF IsShortNumber(h) /\ IsShortNumber(m)
                 THEN NumberVal(h) * 60 + NumberVal(m)
                 ELSE -1

\* parse_time_token: minutes, or -1 where the program raises ValueError
parse_time_token(tok) ==
  LET t == Strip(tok)
      colons == {i \in 1..Len(t) : SubSeq(t, i, i) = ":"}
  IN  IF colons = {}
        THEN IF IsShortNumber(t)
               THEN LET hh == NumberVal(t)
                    IN  (IF hh < 8 THEN hh + 12 ELSE hh) * 60
               ELSE -1
      ELSE LET p == CHOOSE i \in colons : \A j \in colons : i <= j
               h == SubSeq(t, 1, p - 1)
               m == SubSeq(t, p + 1, Len(t))
           IN  IF IsShortNumber(h) /\ IsShortNumber(m)
                 THEN LET hh == NumberVal(h)
                      IN  (IF hh < 8 THEN hh + 12 ELSE hh) * 60 + NumberVal(m)
                 ELSE -1

\* slot_label_to_canonical, with the exception caught as at the table build
slot_label_to_canonical(slot_label) ==
  LET main == FirstToken(slot_label)
      dashes == {i \in 1..Len(main) : SubSeq(main, i, i) = "-"}
  IN  IF Cardinality(dashes) # 1 THEN NoCanon
      ELSE LET p == CHOOSE i \in dashes : TRUE
               start == parse_time_token(SubSeq(main, 1, p - 1))
               end == parse_time_token(SubSeq(main, p + 1, Len(main)))
           IN  IF start < 0 \/ end < 0 THEN NoCanon ELSE <<start, end>>

\* the module-level loop that fills CANONICAL_MAP
BuildCanonicalMap ==
  [sh \in Shifts |-> [sl \in SlotSet(sh) |-> slot_label_to_canonical(sl)]]

\* the text tests above, worked out once for every label and cell text
BuildMemo ==
  [inert    |-> [s \in AllLabels |-> IsInert(s)],
   free     |-> [v \in CellTexts |-> TextIsFree(v)],
   subject  |-> [v \in CellTexts |-> [s \in SubjectNames |-> TextHasSubject(v, s)]],
   division |-> [v \in CellTexts |->
                   [k \in {Sem} \X DivNames |-> TextHasDivision(v, k[1], k[2])]],
   norm     |-> [d \in DivNames |-> normalize_token(d)]]

(***************************************************************************)
(* State                                                                   *)
(***************************************************************************)

VARIABLES
  CANONICAL_MAP,      \* shift -> label -> canonical (start, end)
  memo,               \* BuildMemo, kept for the run
  faculties,          \* the Faculty Plan (read-only input)
  FREE_DAY_SETTINGS,  \* (sem, div) -> holiday days (read-only input)
  ftables,            \* faculty short name -> table
  dtables,            \* (sem, div) -> [shift, table]
  pc,                 \* position of main
  ki,                 \* free-day marker: index of the key being marked
  fi,                 \* index of the faculty being assigned
  ci,                 \* index of the next lock call of that faculty
  pending,            \* its pending tasks
  ti,                 \* index of the next pending task to force
  last,               \* the last operation and what it wrote
  log,                \* <<operation, faculty index, result, arguments>> of every placer call so far
  flow,               \* the entry point of the run: "cli" (main) or "web" (generate)
  rng,                \* the state of the module random: [seeded, pos]
  exported            \* what export_all has received, one entry per call

vars == <<CANONICAL_MAP, memo, faculties, FREE_DAY_SETTINGS, ftables, dtables,
          pc, ki, fi, ci, pending, ti, last, log, flow, rng, exported>>

(***************************************************************************)
(* Slot model                                                              *)
(***************************************************************************)

\* CANONICAL_MAP[shift].get(label)
CanonGet(shift, label) ==
  IF label \in DOMAIN CANONICAL_MAP[shift] THEN CANONICAL_MAP[shift][label]
  ELSE NoCanon

\* variant of slots_equivalent that only asks for both labels to be known
slots_equivalent_presence(shift_a, label_a, shift_b, label_b) ==
  /\ CanonGet(shift_a, label_a) # NoCanon
  /\ CanonGet(shift_b, label_b) # NoCanon

slots_equivalent(shift_a, label_a, shift_b, label_b) ==
  LET ca == CanonGet(shift_a, label_a)
      cb == CanonGet(shift_b, label_b)
  IN  /\ ca # NoCanon
      /\ cb # NoCanon
      /\ ca[1] = cb[1]
      /\ ca[2] = cb[2]

pair_slots_equivalent(shift_a, a1, a2, shift_b, b1, b2) ==
  /\ slots_equivalent(shift_a, a1, shift_b, b1)
  /\ slots_equivalent(shift_a, a2, shift_b, b2)

\* consecutive_pairs_for_shift: sequence of <<a, b>>
consecutive_pairs_for_shift(shift) ==
  LET slots == SHIFT_SLOTS(shift)
      ok == [i \in 1..(Len(slots) - 1) |->
               /\ ~memo.inert[slots[i]]
               /\ ~memo.inert[slots[i + 1]]
               /\ CanonGet(shift, slots[i]) # NoCanon
               /\ CanonGet(shift, slots[i + 1]) # NoCanon]
      RECURSIVE build(_)
      build(i) ==
        IF i > Len(slots) - 1 THEN <<>>
        ELSE (IF ok[i] THEN << <<slots[i], slots[i + 1]>> >> ELSE <<>>)
             \o build(i + 1)
  IN  build(1)

\* the slots the placers' loops do not skip: [s for s in SHIFT_SLOTS[shift]
\* if "Break" not in s and "Lunch" not in s]
TeachingSlots(shift) == SelectSeq(SHIFT_SLOTS(shift), LAMBDA s : ~memo.inert[s])

is_slot_allowed_for_10_5_on_8_3(slot_label) ==
  LET holders == {i \in 1..Len(ShiftOrder) :
                    slot_label \in DOMAIN CANONICAL_MAP[ShiftOrder[i]]}
  IN  IF holders = {} THEN FALSE
      ELSE LET sh == ShiftOrder[CHOOSE i \in holders : \A j \in holders : i <= j]
               canon == CANONICAL_MAP[sh][slot_label]
           IN  IF canon = NoCanon THEN FALSE ELSE canon[1] >= 600

division_slot_allowed_for_faculty(fac_shift, div_shift, slot_label) ==
  IF fac_shift = LATE /\ div_shift = MORNING
    THEN is_slot_allowed_for_10_5_on_8_3(slot_label)
    ELSE TRUE

division_pair_allowed_for_faculty(fac_shift, div_shift, p1, p2) ==
  IF fac_shift = LATE /\ div_shift = MORNING
    THEN is_slot_allowed_for_10_5_on_8_3(p1) /\ is_slot_allowed_for_10_5_on_8_3(p2)
    ELSE TRUE

(***************************************************************************)
(* Grid store and constraint predicates.  A table is a function            *)
(* day -> (slot label -> cell text), as the program's dict of dicts; a     *)
(* write to a label the row lacks adds the key, as a dict assignment does. *)
(***************************************************************************)

empty_table_for_shift(shift) ==
  [d \in DaySet |-> [s \in SlotSet(shift) |-> IF memo.inert[s] THEN s ELSE ""]]

\* tbl[day].get(slot, "")
CellGet(tbl, day, slot) ==
  IF slot \in DOMAIN tbl[day] THEN tbl[day][slot] ELSE ""

\* tbl[day][slot] = text
CellPut(tbl, day, slot, text) ==
  [tbl EXCEPT ![day] = (slot :> text) @@ @]

\* variant of free_slot whose holiday-marker branch answers True
free_slot_sentinel_free(tbl, day, slot) ==
  \/ memo.free[CellGet(tbl, day, slot)]
  \/ Contains(FREE_DAY_LABEL, CellGet(tbl, day, slot))

free_slot(tbl, day, slot) == memo.free[CellGet(tbl, day, slot)]

free_pair(tbl, day, s1, s2) == free_slot(tbl, day, s1) /\ free_slot(tbl, day, s2)

day_has_subject(tbl, day, subject) ==
  \E s \in DOMAIN tbl[day] : memo.subject[tbl[day][s]][subject]

day_has_division(tbl, day, sem, div) ==
  \E s \in DOMAIN tbl[day] : memo.division[tbl[day][s]][<<sem, div>>]

\* FREE_DAY_SETTINGS.get((str(sem), normalize_token(div)), [])
HolidaysOf(sem, div) ==
  LET key == <<sem, memo.norm[div]>>
  IN  IF key \in DOMAIN FREE_DAY_SETTINGS THEN FREE_DAY_SETTINGS[key] ELSE <<>>

is_division_holiday(sem, div, day) ==
  \E i \in 1..Len(HolidaysOf(sem, div)) : HolidaysOf(sem, div)[i] = day

\* variant of MarkHolidays that leaves the new table unmarked
MarkHolidays_Unmarked(tbl, holidays, div_shift, sem, div) == tbl

\* the loop of ensure_div_table over the holidays of a new table
RECURSIVE MarkHolidays(_, _, _, _, _)
MarkHolidays(tbl, holidays, div_shift, sem, div) ==
  IF holidays = <<>> THEN tbl
  ELSE LET hday == Head(holidays)
           row == [s \in DOMAIN tbl[hday] |->
                     IF memo.inert[s] THEN tbl[hday][s] ELSE HolidayText(sem, div)]
       IN  MarkHolidays([tbl EXCEPT ![hday] = row], Tail(holidays), div_shift, sem, div)

\* ensure_div_table: the division tables after the call
ensure_div_table(dt, sem, div, div_shift) ==
  LET key == <<sem, div>>
  IN  IF key \in DOMAIN dt THEN dt
      ELSE (key :> [shift |-> div_shift,
                    table |-> MarkHolidays(empty_table_for_shift(div_shift),
                                           HolidaysOf(sem, div),
                                           div_shift, sem, div)]) @@ dt

(***************************************************************************)
(* Lock and force placers.  Each gives the set of placements the call can  *)
(* end with: one per day order random.sample can produce (lock), exactly   *)
(* one for the deterministic force passes; NoPlacement is the return False.*)
(***************************************************************************)

MinOf(S) == CHOOSE i \in S : \A j \in S : i <= j

NoPlacement ==
  [ok |-> FALSE, pass |-> "none", fday |-> "", fs |-> "", fs2 |-> "",
   dday |-> "", ds |-> "", ds2 |-> ""]

TheoryAt(pass, fday, fs, dday, ds) ==
  [ok |-> TRUE, pass |-> pass, fday |-> fday, fs |-> fs, fs2 |-> "",
   dday |-> dday, ds |-> ds, ds2 |-> ""]

LabAt(pass, fday, fp, dday, dp) ==
  [ok |-> TRUE, pass |-> pass, fday |-> fday, fs |-> fp[1], fs2 |-> fp[2],
   dday |-> dday, ds |-> dp[1], ds2 |-> dp[2]]

\* variant of WriteTheoryFac that writes the text of a lab block
WriteTheoryFac_LabText(ftbl, r, sem, div, subject) ==
  CellPut(ftbl, r.fday, r.fs, LabFacText(subject, sem, div, "B1"))

\* the writes of a theory placement: the faculty cell
WriteTheoryFac(ftbl, r, sem, div, subject) ==
  CellPut(ftbl, r.fday, r.fs, TheoryFacText(subject, sem, div))

\* the writes of a theory placement: the division cell
WriteTheoryDiv(dtbl, r, fname, subject) ==
  CellPut(dtbl, r.dday, r.ds, TheoryDivText(subject, fname))

\* variant of WriteLabFac with the two cells of the block exchanged
WriteLabFac_MergeFirst(ftbl, r, sem, div, subject, batch) ==
  CellPut(CellPut(ftbl, r.fday, r.fs, MERGE),
          r.fday, r.fs2, LabFacText(subject, sem, div, batch))

\* the writes of a lab placement
WriteLabFac(ftbl, r, sem, div, subject, batch) ==
  CellPut(CellPut(ftbl, r.fday, r.fs, LabFacText(subject, sem, div, batch)),
          r.fday, r.fs2, MERGE)
WriteLabDiv(dtbl, r, fname, subject, batch) ==
  CellPut(CellPut(dtbl, r.dday, r.ds, LabDivText(subject, fname, batch)),
          r.dday, r.ds2, MERGE)

\* the tests of the inner loops of lock_theory / force_place_theory on
\* teaching slots fs (faculty, fday) and ds (division, dday)
TheoryCandidate(ftbl, dtbl, fshift, dshift, fday, fs, dday, ds) ==
  /\ free_slot(ftbl, fday, fs)
  /\ free_slot(dtbl, dday, ds)
  /\ slots_equivalent(fshift, fs, dshift, ds)
  /\ division_slot_allowed_for_faculty(fshift, dshift, ds)

\* the tests of the inner loops of lock_lab / the tight pass of force_place_lab
LabCandidate(ftbl, dtbl, fshift, dshift, fday, fp, dday, dp) ==
  /\ free_pair(ftbl, fday, fp[1], fp[2])
  /\ free_pair(dtbl, dday, dp[1], dp[2])
  /\ pair_slots_equivalent(fshift, fp[1], fp[2], dshift, dp[1], dp[2])
  /\ division_pair_allowed_for_faculty(fshift, dshift, dp[1], dp[2])

\* variant of the relaxed pass that also drops the pair equivalence
LabCandidateRelaxed_NoEquivalence(ftbl, dtbl, fshift, dshift, fday, fp, dday, dp) ==
  /\ free_pair(dtbl, dday, dp[1], dp[2])
  /\ free_pair(ftbl, fday, fp[1], fp[2])

\* the tests of the relaxed pass of force_place_lab
LabCandidateRelaxed(ftbl, dtbl, fshift, dshift, fday, fp, dday, dp) ==
  /\ free_pair(dtbl, dday, dp[1], dp[2])
  /\ free_pair(ftbl, fday, fp[1], fp[2])
  /\ pair_slots_equivalent(fshift, fp[1], fp[2], dshift, dp[1], dp[2])

\* variant of FirstPair that takes the last faculty index with a hit
FirstPair_LastFaculty(hit) ==
  LET i == CHOOSE x \in {h[1] : h \in hit} : \A y \in {h[1] : h \in hit} : y <= x
  IN  <<i, MinOf({h[2] : h \in {g \in hit : g[1] = i}})>>

\* first <<i, j>> in lexicographic order, the order of two nested loops
FirstPair(hit) ==
  LET i == MinOf({h[1] : h \in hit})
  IN  <<i, MinOf({h[2] : h \in {g \in hit : g[1] = i}})>>

\* first (faculty slot, division slot) of the two nested slot loops on one
\* day: <<i, j>>, or <<>> when the loops end without a placement
FirstTheorySameDay(ftbl, dtbl, fshift, dshift, fsl, dsl, day) ==
  LET hit == {h \in (1..Len(fsl)) \X (1..Len(dsl)) :
                TheoryCandidate(ftbl, dtbl, fshift, dshift,
                                day, fsl[h[1]], day, dsl[h[2]])}
  IN  IF hit = {} THEN <<>> ELSE FirstPair(hit)

\* first (faculty pair, division pair) of the two nested pair loops on one day
FirstLabSameDay(ftbl, dtbl, fshift, dshift, fps, dps, day) ==
  LET hit == {h \in (1..Len(fps)) \X (1..Len(dps)) :
                LabCandidate(ftbl, dtbl, fshift, dshift,
                             day, fps[h[1]], day, dps[h[2]])}
  IN  IF hit = {} THEN <<>> ELSE FirstPair(hit)

\* variant of LockDayAdmitted without the test day_has_subject
LockDayAdmitted_NoSubjectTest(dtbl, sem, div, subject, day) ==
  /\ ~day_has_division(dtbl, day, sem, div)
  /\ ~is_division_holiday(sem, div, day)

\* the day filter of the first loop of lock_theory / lock_lab (avoid_dup = True)
LockDayAdmitted(dtbl, sem, div, subject, day) ==
  /\ ~day_has_division(dtbl, day, sem, div)
  /\ ~day_has_subject(dtbl, day, subject)
  /\ ~is_division_holiday(sem, div, day)

\* variant of lock_theory without its second loop
lock_theory_FirstLoopOnly(ftbl, dtbl, fshift, dshift, fname, sem, div, subject) ==
  LET fsl == TeachingSlots(fshift)
      dsl == TeachingSlots(dshift)
      first == [day \in DaySet |->
                  FirstTheorySameDay(ftbl, dtbl, fshift, dshift, fsl, dsl, day)]
      daysA == {day \in DaySet : /\ first[day] # <<>>
                                 /\ LockDayAdmitted(dtbl, sem, div, subject, day)}
  IN  IF daysA # {}
        THEN {TheoryAt("A", day, fsl[first[day][1]], day, dsl[first[day][2]]) :
                day \in daysA}
      ELSE {NoPlacement}

lock_theory(ftbl, dtbl, fshift, dshift, fname, sem, div, subject) ==
  LET fsl == TeachingSlots(fshift)
      dsl == TeachingSlots(dshift)
      first == [day \in DaySet |->
                  FirstTheorySameDay(ftbl, dtbl, fshift, dshift, fsl, dsl, day)]
      daysB == {day \in DaySet : first[day] # <<>>}
      daysA == {day \in daysB : LockDayAdmitted(dtbl, sem, div, subject, day)}
      at(pass, day) == TheoryAt(pass, day, fsl[first[day][1]], day, dsl[first[day][2]])
  IN  IF daysA # {} THEN {at("A", day) : day \in daysA}
      ELSE IF daysB # {} THEN {at("fallback", day) : day \in daysB}
      ELSE {NoPlacement}

lock_lab(ftbl, dtbl, fshift, dshift, fname, sem, div, subject, batch_label) ==
  LET fps == consecutive_pairs_for_shift(fshift)
      dps == consecutive_pairs_for_shift(dshift)
      first == [day \in DaySet |->
                  FirstLabSameDay(ftbl, dtbl, fshift, dshift, fps, dps, day)]
      daysA == {day \in DaySet : /\ first[day] # <<>>
                                 /\ LockDayAdmitted(dtbl, sem, div, subject, day)}
      \* second loop: the division days it does not skip
      open == {dday \in DaySet : ~day_has_division(dtbl, dday, sem, div)}
      \* per faculty day and faculty pair, the division pairs each open day offers
      hits == [fday \in DaySet |-> [i \in 1..Len(fps) |-> [dday \in open |->
                 {j \in 1..Len(dps) :
                    LabCandidate(ftbl, dtbl, fshift, dshift, fday, fps[i], dday, dps[j])}]]]
      ddays(fday, i) == {dday \in open : hits[fday][i][dday] # {}}
      fis == [fday \in DaySet |-> {i \in 1..Len(fps) : ddays(fday, i) # {}}]
      fdays == {fday \in DaySet : fis[fday] # {}}
  IN  IF daysA # {}
        THEN {LabAt("A", day, fps[first[day][1]], day, dps[first[day][2]]) :
                day \in daysA}
      ELSE IF fdays # {}
        THEN UNION {
               LET i == MinOf(fis[fday])
               IN  {LabAt("fallback", fday, fps[i],
                          dday, dps[MinOf(hits[fday][i][dday])]) :
                      dday \in ddays(fday, i)} : fday \in fdays}
      ELSE {NoPlacement}

\* first position of the relaxed loops (dday, division slot, fday, faculty
\* slot) among the index tuples in hit: <<kd, j, kf, i>>
FirstRelaxed(hit) ==
  LET kd == MinOf({h[1] : h \in hit})
      j == MinOf({h[2] : h \in {g \in hit : g[1] = kd}})
      kf == MinOf({h[3] : h \in {g \in hit : g[1] = kd /\ g[2] = j}})
      i == MinOf({h[4] : h \in {g \in hit : g[1] = kd /\ g[2] = j /\ g[3] = kf}})
  IN  <<kd, j, kf, i>>

force_place_theory(ftbl, dtbl, fshift, dshift, fname, sem, div, subject) ==
  LET fsl == TeachingSlots(fshift)
      dsl == TeachingSlots(dshift)
      first == [day \in DaySet |->
                  FirstTheorySameDay(ftbl, dtbl, fshift, dshift, fsl, dsl, day)]
      tight == {k \in 1..Len(DAYS) : /\ ~is_division_holiday(sem, div, DAYS[k])
                                     /\ first[DAYS[k]] # <<>>}
      relaxed ==
        {h \in (1..Len(DAYS)) \X (1..Len(dsl)) \X (1..Len(DAYS)) \X (1..Len(fsl)) :
           TheoryCandidate(ftbl, dtbl, fshift, dshift,
                           DAYS[h[3]], fsl[h[4]], DAYS[h[1]], dsl[h[2]])}
  IN  IF tight # {}
        THEN LET day == DAYS[MinOf(tight)]
             IN  {TheoryAt("tight", day, fsl[first[day][1]], day, dsl[first[day][2]])}
      ELSE IF relaxed # {}
        THEN LET h == FirstRelaxed(relaxed)
             IN  {TheoryAt("relaxed", DAYS[h[3]], fsl[h[4]], DAYS[h[1]], dsl[h[2]])}
      ELSE {NoPlacement}

force_place_lab(ftbl, dtbl, fshift, dshift, fname, sem, div, subject, batch_label) ==
  LET fps == consecutive_pairs_for_shift(fshift)
      dps == consecutive_pairs_for_shift(dshift)
      first == [day \in DaySet |->
                  FirstLabSameDay(ftbl, dtbl, fshift, dshift, fps, dps, day)]
      tight == {k \in 1..Len(DAYS) : /\ ~is_division_holiday(sem, div, DAYS[k])
                                     /\ first[DAYS[k]] # <<>>}
      relaxed ==
        {h \in (1..Len(DAYS)) \X (1..Len(dps)) \X (1..Len(DAYS)) \X (1..Len(fps)) :
           LabCandidateRelaxed(ftbl, dtbl, fshift, dshift,
                               DAYS[h[3]], fps[h[4]], DAYS[h[1]], dps[h[2]])}
  IN  IF tight # {}
        THEN LET day == DAYS[MinOf(tight)]
             IN  {LabAt("tight", day, fps[first[day][1]], day, dps[first[day][2]])}
      ELSE IF relaxed # {}
        THEN LET h == FirstRelaxed(relaxed)
             IN  {LabAt("relaxed", DAYS[h[3]], fps[h[4]], DAYS[h[1]], dps[h[2]])}
      ELSE {NoPlacement}

(***************************************************************************)
(* The module random.  main and generate call random.seed(7); every loop   *)
(* over random.sample(DAYS, len(DAYS)) takes the next permutation of the   *)
(* stream.  SEED7_SAMPLES holds the stream of CPython 3.11 after seed(7),  *)
(* as indices into DAYS.                                                   *)
(***************************************************************************)

SEED7_SAMPLES ==
  <<
     <<3, 2, 4, 6, 1, 5>>, <<5, 1, 3, 4, 6, 2>>, <<1, 6, 4, 2, 5, 3>>, <<1, 5, 4, 6, 3, 2>>,
     <<6, 5, 1, 3, 2, 4>>, <<2, 1, 6, 4, 3, 5>>, <<5, 1, 3, 4, 6, 2>>, <<5, 6, 2, 4, 1, 3>>,
     <<5, 1, 2, 4, 3, 6>>, <<4, 5, 6, 2, 3, 1>>, <<2, 6, 1, 3, 5, 4>>, <<3, 4, 6, 5, 1, 2>>,
     <<5, 4, 2, 6, 1, 3>>, <<4, 1, 5, 3, 2, 6>>, <<6, 3, 4, 5, 2, 1>>, <<1, 3, 4, 5, 6, 2>>,
     <<6, 3, 4, 2, 5, 1>>, <<1, 4, 3, 6, 5, 2>>, <<1, 2, 3, 6, 4, 5>>, <<4, 6, 1, 5, 2, 3>>,
     <<5, 3, 2, 4, 6, 1>>, <<3, 4, 2, 1, 6, 5>>, <<2, 6, 5, 1, 4, 3>>, <<3, 6, 1, 4, 2, 5>>,
     <<5, 6, 3, 1, 4, 2>>, <<6, 5, 4, 2, 3, 1>>, <<1, 4, 5, 6, 3, 2>>, <<2, 4, 6, 1, 5, 3>>,
     <<1, 6, 2, 3, 5, 4>>, <<5, 1, 6, 4, 2, 3>>, <<6, 3, 5, 4, 2, 1>>, <<1, 6, 4, 2, 3, 5>>,
     <<3, 1, 2, 5, 4, 6>>, <<4, 2, 1, 6, 5, 3>>, <<6, 5, 1, 3, 2, 4>>, <<6, 3, 5, 1, 2, 4>>,
     <<5, 6, 3, 4, 1, 2>>, <<2, 4, 6, 1, 5, 3>>, <<6, 1, 5, 2, 3, 4>>, <<2, 5, 3, 6, 4, 1>>,
     <<1, 2, 6, 4, 5, 3>>, <<3, 2, 4, 6, 1, 5>>, <<6, 3, 1, 5, 4, 2>>, <<6, 2, 4, 1, 5, 3>>,
     <<1, 4, 5, 2, 6, 3>>, <<2, 6, 1, 4, 5, 3>>, <<5, 6, 4, 3, 2, 1>>, <<5, 6, 2, 1, 3, 4>>,
     <<5, 2, 4, 1, 3, 6>>, <<3, 2, 6, 4, 1, 5>>, <<3, 5, 4, 1, 6, 2>>, <<4, 5, 6, 3, 1, 2>>,
     <<5, 6, 1, 2, 4, 3>>, <<2, 6, 5, 4, 1, 3>>, <<3, 5, 4, 1, 6, 2>>, <<2, 3, 1, 4, 6, 5>>,
     <<1, 4, 3, 5, 6, 2>>, <<4, 5, 6, 3, 1, 2>>, <<5, 2, 4, 1, 6, 3>>, <<4, 6, 3, 1, 5, 2>>,
     <<1, 2, 3, 6, 4, 5>>, <<2, 3, 6, 4, 1, 5>>, <<4, 6, 2, 3, 1, 5>>, <<6, 4, 5, 2, 3, 1>>,
     <<3, 6, 1, 5, 2, 4>>, <<3, 5, 4, 2, 1, 6>>, <<3, 5, 6, 4, 1, 2>>, <<2, 1, 5, 6, 3, 4>>,
     <<2, 3, 6, 4, 5, 1>>, <<2, 5, 4, 3, 6, 1>>, <<3, 1, 2, 4, 5, 6>>, <<1, 6, 3, 5, 4, 2>>,
     <<3, 1, 4, 5, 2, 6>>, <<3, 5, 2, 1, 6, 4>>, <<2, 3, 1, 4, 5, 6>>, <<6, 3, 2, 4, 5, 1>>,
     <<3, 6, 1, 2, 4, 5>>, <<1, 5, 2, 3, 4, 6>>, <<4, 1, 6, 3, 2, 5>>, <<5, 3, 2, 1, 4, 6>>,
     <<6, 2, 4, 5, 1, 3>>, <<1, 6, 3, 2, 5, 4>>, <<1, 4, 3, 5, 6, 2>>, <<1, 4, 2, 6, 5, 3>>,
     <<1, 3, 5, 2, 4, 6>>, <<1, 3, 2, 4, 6, 5>>, <<3, 4, 1, 2, 6, 5>>, <<2, 5, 1, 4, 6, 3>>,
     <<2, 4, 1, 6, 5, 3>>, <<3, 2, 1, 6, 4, 5>>, <<3, 4, 2, 5, 1, 6>>, <<6, 5, 4, 3, 1, 2>>,
     <<6, 5, 2, 1, 3, 4>>, <<2, 3, 1, 6, 5, 4>>, <<6, 1, 2, 4, 3, 5>>, <<4, 1, 5, 3, 6, 2>>,
     <<3, 1, 6, 5, 4, 2>>, <<6, 4, 5, 2, 1, 3>>, <<6, 3, 1, 5, 4, 2>>, <<5, 2, 3, 6, 4, 1>>,
     <<1, 4, 6, 2, 3, 5>>, <<6, 2, 4, 5, 3, 1>>, <<4, 6, 1, 3, 5, 2>>, <<1, 4, 6, 2, 3, 5>>,
     <<5, 4, 3, 2, 1, 6>>, <<1, 5, 6, 4, 2, 3>>, <<2, 5, 3, 1, 6, 4>>, <<4, 6, 5, 1, 3, 2>>,
     <<4, 6, 5, 2, 1, 3>>, <<3, 4, 6, 1, 2, 5>>, <<3, 6, 4, 1, 5, 2>>, <<6, 3, 5, 2, 1, 4>>,
     <<4, 5, 1, 2, 3, 6>>, <<1, 3, 6, 4, 2, 5>>, <<2, 3, 4, 5, 6, 1>>, <<3, 4, 1, 6, 2, 5>>,
     <<6, 1, 5, 3, 2, 4>>, <<5, 2, 3, 6, 1, 4>>, <<2, 4, 5, 6, 3, 1>>, <<3, 6, 4, 5, 1, 2>>,
     <<4, 5, 6, 1, 3, 2>>, <<1, 2, 4, 3, 6, 5>>, <<3, 4, 5, 1, 6, 2>>, <<1, 2, 3, 4, 6, 5>>,
     <<2, 3, 5, 4, 1, 6>>, <<6, 4, 5, 2, 1, 3>>, <<3, 6, 1, 2, 5, 4>>, <<2, 5, 6, 1, 4, 3>>,
     <<4, 6, 5, 2, 3, 1>>, <<2, 1, 4, 3, 6, 5>>, <<1, 6, 4, 3, 2, 5>>, <<2, 1, 6, 5, 3, 4>>,
     <<6, 4, 1, 3, 5, 2>>, <<2, 6, 1, 3, 5, 4>>, <<6, 3, 4, 5, 1, 2>>, <<1, 3, 2, 4, 5, 6>>,
     <<5, 1, 6, 3, 2, 4>>, <<3, 6, 2, 4, 1, 5>>, <<1, 4, 3, 6, 5, 2>>, <<4, 6, 1, 2, 5, 3>>,
     <<3, 2, 4, 1, 5, 6>>, <<3, 4, 2, 1, 5, 6>>, <<2, 4, 6, 5, 1, 3>>, <<4, 2, 3, 5, 1, 6>>,
     <<5, 2, 6, 4, 3, 1>>, <<5, 2, 4, 1, 3, 6>>, <<5, 2, 4, 1, 3, 6>>, <<4, 6, 3, 5, 1, 2>>,
     <<2, 3, 6, 1, 4, 5>>, <<3, 4, 6, 2, 5, 1>>, <<1, 6, 5, 2, 4, 3>>, <<4, 1, 2, 6, 3, 5>>,
     <<4, 1, 5, 3, 2, 6>>, <<3, 5, 4, 1, 2, 6>>, <<6, 4, 1, 3, 2, 5>>, <<6, 4, 1, 2, 5, 3>>,
     <<1, 6, 3, 5, 4, 2>>, <<3, 6, 5, 4, 1, 2>>, <<6, 3, 5, 2, 1, 4>>, <<1, 2, 6, 5, 3, 4>>,
     <<3, 4, 5, 1, 2, 6>>, <<1, 3, 2, 5, 6, 4>>, <<3, 4, 6, 5, 1, 2>>, <<4, 2, 5, 6, 1, 3>>,
     <<4, 5, 3, 1, 2, 6>>, <<1, 3, 6, 4, 5, 2>>, <<4, 6, 2, 1, 3, 5>>, <<4, 5, 2, 3, 1, 6>>,
     <<3, 6, 5, 2, 4, 1>>, <<2, 4, 6, 1, 3, 5>>, <<2, 3, 6, 4, 1, 5>>, <<3, 2, 5, 6, 1, 4>>,
     <<1, 6, 5, 2, 4, 3>>, <<3, 1, 6, 5, 4, 2>>, <<2, 5, 6, 1, 4, 3>>, <<4, 5, 3, 6, 1, 2>>,
     <<6, 5, 3, 1, 4, 2>>, <<3, 2, 1, 4, 5, 6>>, <<5, 2, 1, 6, 3, 4>>, <<2, 5, 3, 1, 4, 6>>,
     <<4, 5, 6, 1, 2, 3>>, <<4, 5, 2, 3, 1, 6>>, <<4, 3, 6, 2, 5, 1>>, <<1, 3, 5, 2, 4, 6>>,
     <<3, 2, 4, 6, 5, 1>>, <<1, 4, 2, 5, 6, 3>>, <<4, 5, 3, 2, 1, 6>>, <<1, 6, 2, 3, 4, 5>>,
     <<5, 6, 3, 4, 1, 2>>, <<3, 6, 2, 5, 1, 4>>, <<1, 4, 5, 6, 2, 3>>, <<1, 4, 3, 6, 2, 5>>,
     <<6, 5, 2, 3, 1, 4>>, <<5, 2, 4, 1, 3, 6>>, <<4, 5, 2, 6, 3, 1>>, <<2, 6, 5, 1, 3, 4>>,
     <<1, 4, 5, 3, 2, 6>>, <<3, 5, 2, 4, 6, 1>>, <<4, 5, 6, 1, 3, 2>>, <<5, 4, 6, 1, 2, 3>>,
     <<2, 4, 5, 1, 3, 6>>, <<3, 4, 6, 1, 2, 5>>, <<1, 2, 6, 3, 5, 4>>, <<1, 5, 4, 3, 6, 2>>,
     <<1, 5, 6, 4, 3, 2>>, <<3, 2, 5, 1, 4, 6>>, <<2, 3, 5, 6, 1, 4>>, <<5, 4, 2, 3, 6, 1>>,
     <<3, 6, 1, 4, 5, 2>>, <<2, 3, 5, 6, 1, 4>>, <<1, 5, 6, 3, 2, 4>>, <<5, 6, 1, 2, 3, 4>>,
     <<3, 4, 6, 5, 1, 2>>, <<3, 1, 4, 5, 6, 2>>, <<3, 5, 6, 2, 4, 1>>, <<6, 1, 2, 5, 4, 3>>,
     <<4, 5, 3, 1, 6, 2>>, <<2, 5, 1, 4, 3, 6>>, <<5, 3, 6, 1, 2, 4>>, <<4, 5, 3, 6, 1, 2>>,
     <<3, 5, 4, 1, 6, 2>>, <<2, 6, 4, 1, 3, 5>>, <<6, 3, 4, 2, 1, 5>>, <<6, 5, 3, 4, 2, 1>>
  >>

\* the n-th random.sample(DAYS, len(DAYS)) after random.seed(7)
random_sample(n) == [i \in 1..Len(DAYS) |-> DAYS[SEED7_SAMPLES[n][i]]]

\* the random module when the day orders are left open
AnyOrder == [seeded |-> FALSE, pos |-> 0]

\* variant of random_seed that keeps the position in the stream
random_seed_keep_position(state) == [state EXCEPT !.seeded = TRUE]

\* random.seed(7)
random_seed(state) == [seeded |-> TRUE, pos |-> 0]

\* lock_theory under the seeded stream, pos samples of which are used up:
\* the placement and the number of samples the call takes
lock_theory_seeded(ftbl, dtbl, fshift, dshift, fname, sem, div, subject, pos) ==
  LET fsl == TeachingSlots(fshift)
      dsl == TeachingSlots(dshift)
      first == [day \in DaySet |->
                  FirstTheorySameDay(ftbl, dtbl, fshift, dshift, fsl, dsl, day)]
      hitsA == SelectSeq(random_sample(pos + 1),
                         LAMBDA day : /\ LockDayAdmitted(dtbl, sem, div, subject, day)
                                      /\ first[day] # <<>>)
      hitsB == SelectSeq(random_sample(pos + 2), LAMBDA day : first[day] # <<>>)
      at(pass, day) == TheoryAt(pass, day, fsl[first[day][1]], day, dsl[first[day][2]])
  IN  IF hitsA # <<>> THEN [r |-> at("A", hitsA[1]), draws |-> 1]
      ELSE IF hitsB # <<>> THEN [r |-> at("fallback", hitsB[1]), draws |-> 2]
      ELSE [r |-> NoPlacement, draws |-> 2]

\* lock_lab under the seeded stream: the second loop takes one sample for the
\* faculty days and one more each time it reaches a free faculty pair
lock_lab_seeded(ftbl, dtbl, fshift, dshift, fname, sem, div, subject, batch_label, pos) ==
  LET fps == consecutive_pairs_for_shift(fshift)
      dps == consecutive_pairs_for_shift(dshift)
      first == [day \in DaySet |->
                  FirstLabSameDay(ftbl, dtbl, fshift, dshift, fps, dps, day)]
      hitsA == SelectSeq(random_sample(pos + 1),
                         LAMBDA day : /\ LockDayAdmitted(dtbl, sem, div, subject, day)
                                      /\ first[day] # <<>>)
      fdays == random_sample(pos + 2)
      n == Len(fps)
      \* <<fday, i>> in the order of the two outer loops, free faculty pairs only
      cands == SelectSeq([m \in 1..(Len(DAYS) * n) |->
                            <<fdays[((m - 1) \div n) + 1], ((m - 1) % n) + 1>>],
                         LAMBDA c : free_pair(ftbl, c[1], fps[c[2]][1], fps[c[2]][2]))
      dhits(k, dday) ==
        {j \in 1..Len(dps) :
           LabCandidate(ftbl, dtbl, fshift, dshift,
                        cands[k][1], fps[cands[k][2]], dday, dps[j])}
      ddays(k) == SelectSeq(random_sample(pos + 2 + k),
                            LAMBDA dday : /\ ~day_has_division(dtbl, dday, sem, div)
                                          /\ dhits(k, dday) # {})
      ks == {k \in 1..Len(cands) : ddays(k) # <<>>}
  IN  IF hitsA # <<>>
        THEN [r |-> LabAt("A", hitsA[1], fps[first[hitsA[1]][1]],
                          hitsA[1], dps[first[hitsA[1]][2]]),
              draws |-> 1]
      ELSE IF ks # {}
        THEN LET k == MinOf(ks)
                 dday == ddays(k)[1]
             IN  [r |-> LabAt("fallback", cands[k][1], fps[cands[k][2]],
                              dday, dps[MinOf(dhits(k, dday))]),
                  draws |-> 2 + k]
      ELSE [r |-> NoPlacement, draws |-> 2 + Len(cands)]

\* the returns a lock call can end with, each with the samples it takes
lock_theory_returns(ftbl, dtbl, fshift, dshift, fname, sem, div, subject) ==
  IF rng.seeded
    THEN {lock_theory_seeded(ftbl, dtbl, fshift, dshift, fname, sem, div, subject,
                             rng.pos)}
    ELSE {[r |-> x, draws |-> 0] :
            x \in lock_theory(ftbl, dtbl, fshift, dshift, fname, sem, div, subject)}

lock_lab_returns(ftbl, dtbl, fshift, dshift, fname, sem, div, subject, batch_label) ==
  IF rng.seeded
    THEN {lock_lab_seeded(ftbl, dtbl, fshift, dshift, fname, sem, div, subject,
                          batch_label, rng.pos)}
    ELSE {[r |-> x, draws |-> 0] :
            x \in lock_lab(ftbl, dtbl, fshift, dshift, fname, sem, div, subject,
                           batch_label)}

(***************************************************************************)
(* Inputs: the Faculty Plan and FREE_DAY_SETTINGS, drawn from bounded sets *)
(***************************************************************************)

\* most weekly instances (lock calls) one plan asks for
MaxDemand == 3

TheoryEntry(div, dsh, subj, n) ==
  [Type |-> "Theory", Semester |-> Sem, Division |-> div, Div_Shift |-> dsh,
   Subject |-> subj, Theory_Classes |-> n, Num_Labs |-> 0,
   Batches |-> <<>>, Batches_Grouped |-> FALSE]

LabEntry(div, dsh, subj, n, batches, grouped) ==
  [Type |-> "Lab", Semester |-> Sem, Division |-> div, Div_Shift |-> dsh,
   Subject |-> subj, Theory_Classes |-> 0, Num_Labs |-> n,
   Batches |-> batches, Batches_Grouped |-> grouped]

\* variant of BatchesOf that ignores Batches_Grouped
BatchesOf_Ungrouped(entry) == entry.Batches

\* the batch list the lab loop iterates
BatchesOf(entry) ==
  IF entry.Batches_Grouped THEN <<entry.Batches[1]>> ELSE entry.Batches

\* lock calls one entry causes
EntryDemand(entry) ==
  IF entry.Type = "Lab" THEN Len(BatchesOf(entry)) * entry.Num_Labs
  ELSE entry.Theory_Classes

RECURSIVE SubjectsDemand(_)
SubjectsDemand(subjects) ==
  IF subjects = <<>> THEN 0
  ELSE EntryDemand(Head(subjects)) + SubjectsDemand(Tail(subjects))

FirstEntries ==
  {TheoryEntry(DivA, dsh, "Maths", n) : dsh \in Shifts, n \in 1..(MaxDemand - 1)}
  \cup {LabEntry(DivA, MORNING, "DSP", n, <<"B1">>, FALSE) : n \in 1..MaxDemand}
  \cup {LabEntry(DivB, LATE, "DSP", n, <<"B1">>, FALSE) : n \in 1..(MaxDemand - 1)}
  \cup {LabEntry(DivA, MORNING, "DSP", 1, <<"B1", "B2">>, g) : g \in BOOLEAN}

MoreEntries ==
  {TheoryEntry(DivA, MORNING, "Maths", 1),
   TheoryEntry(DivA, LATE, "Maths", 1),
   TheoryEntry(DivA, MORNING, "DSP", 1),
   LabEntry(DivA, MORNING, "DSP", 1, <<"B1">>, FALSE)}

SecondEntries ==
  {TheoryEntry(DivA, MORNING, "Maths", 1),
   TheoryEntry(DivB, LATE, "Maths", 1)}

FacultyPlans ==
  {<< [Name |-> "MSK", Shift |-> sh1, Subjects |-> s1],
      [Name |-> "PQR", Shift |-> MORNING, Subjects |-> s2] >> :
     sh1 \in Shifts,
     s1 \in {<<>>} \cup {<<e>> : e \in FirstEntries}
              \cup {<<e, m>> : e \in FirstEntries, m \in MoreEntries},
     s2 \in {<<>>} \cup {<<e>> : e \in SecondEntries}}

PlanDemand(plan) ==
  SubjectsDemand(plan[1].Subjects) + SubjectsDemand(plan[2].Subjects)

HolidayChoicesA ==
  {<<"Mon", "Tue", "Fri", "Sat">>,
   <<"Wed", "Thu", "Fri", "Sat">>,
   <<"Tue", "Wed", "Thu", "Fri", "Sat">>,
   <<"Mon", "Tue", "Wed", "Thu", "Fri", "Sat">>}
HolidayChoicesB ==
  {<<>>, <<"Tue", "Wed", "Thu", "Fri", "Sat">>}

\* (sem, div) keys in the order the entries first name them
RECURSIVE KeysOfSubjects(_, _)
KeysOfSubjects(subjects, seen) ==
  IF subjects = <<>> THEN seen
  ELSE LET key == <<Head(subjects).Semester, Head(subjects).Division>>
       IN  KeysOfSubjects(Tail(subjects),
             IF \E i \in 1..Len(seen) : seen[i] = key THEN seen ELSE Append(seen, key))

RECURSIVE KeysOfPlan(_, _)
KeysOfPlan(plan, seen) ==
  IF plan = <<>> THEN seen
  ELSE KeysOfPlan(Tail(plan), KeysOfSubjects(Head(plan).Subjects, seen))

\* the FREE_DAY_SETTINGS the prompts can record for a plan: one entry per
\* (sem, div) the plan names
SettingsFor(plan) ==
  LET keys == KeysOfPlan(plan, <<>>)
      keyset == {keys[i] : i \in 1..Len(keys)}
  IN  {f \in [keyset -> HolidayChoicesA \cup HolidayChoicesB] :
         \A k \in keyset : f[k] \in (IF k[2] = DivA THEN HolidayChoicesA
                                     ELSE HolidayChoicesB)}

(***************************************************************************)
(* The scheduling run (main)                                               *)
(***************************************************************************)

\* every subject of the plan, in the order the two loops visit them
RECURSIVE SubjectsOfPlan(_)
SubjectsOfPlan(plan) ==
  IF plan = <<>> THEN <<>>
  ELSE Head(plan).Subjects \o SubjectsOfPlan(Tail(plan))

\* the loop that fills FREE_DAY_SETTINGS from the subjects: keys in the
\* order of their first insertion, and the value the last insertion left
RECURSIVE WebKeys(_, _)
WebKeys(subjects, seen) ==
  IF subjects = <<>> THEN seen
  ELSE LET subj == Head(subjects)
           key == <<subj.Semester, normalize_token(subj.Division)>>
       IN  WebKeys(Tail(subjects),
                   IF subj.Holidays = <<>> \/ \E i \in 1..Len(seen) : seen[i] = key
                     THEN seen ELSE Append(seen, key))

RECURSIVE WebSettings(_, _)
WebSettings(subjects, settings) ==
  IF subjects = <<>> THEN settings
  ELSE LET subj == Head(subjects)
           key == <<subj.Semester, normalize_token(subj.Division)>>
       IN  WebSettings(Tail(subjects),
                       IF subj.Holidays = <<>> THEN settings
                       ELSE (key :> subj.Holidays) @@ settings)

\* dict order of FREE_DAY_SETTINGS: the order the prompts, or the loop of
\* generate, record the keys
FdsKeys ==
  IF flow = "web" THEN WebKeys(SubjectsOfPlan(faculties), <<>>)
  ELSE KeysOfPlan(faculties, <<>>)

NoOp(op) ==
  [op |-> op, pass |-> "none", ok |-> FALSE, fi |-> 0, fname |-> "",
   fshift |-> "", dshift |-> "", sem |-> "", div |-> "", subject |-> "",
   fday |-> "", fs |-> "", fs2 |-> "", dday |-> "", ds |-> "", ds2 |-> ""]

Init ==
  /\ CANONICAL_MAP = BuildCanonicalMap
  /\ memo = BuildMemo
  /\ flow = "cli"
  /\ faculties \in {p \in FacultyPlans : PlanDemand(p) <= MaxDemand}
  /\ FREE_DAY_SETTINGS \in SettingsFor(faculties)
  /\ ftables = <<>>
  /\ dtables = <<>>
  /\ pc = IF FdsKeys = <<>> THEN "next_faculty" ELSE "premark_ensure"
  /\ ki = 1
  /\ fi = 1
  /\ ci = 1
  /\ pending = <<>>
  /\ ti = 1
  /\ last = NoOp("init")
  /\ log = <<>>
  /\ rng = AnyOrder
  /\ exported = <<>>

(***************************************************************************)
(* apply_free_day_markings_from_inputs                                     *)
(***************************************************************************)

\* Div_Shift of the first entry naming the key, "" when none does
RECURSIVE FirstShiftInSubjects(_, _)
FirstShiftInSubjects(subjects, key) ==
  IF subjects = <<>> THEN ""
  ELSE IF <<Head(subjects).Semester, Head(subjects).Division>> = key
    THEN Head(subjects).Div_Shift
  ELSE FirstShiftInSubjects(Tail(subjects), key)

\* div_shift_map.get(key, "8-3")
RECURSIVE div_shift_map(_, _)
div_shift_map(plan, key) ==
  IF plan = <<>> THEN MORNING
  ELSE LET here == FirstShiftInSubjects(Head(plan).Subjects, key)
       IN  IF here # "" THEN here ELSE div_shift_map(Tail(plan), key)

\* the loop over the selected days: every key of the day's row is overwritten
RECURSIVE FillDays(_, _, _, _)
FillDays(tbl, days, sem, div) ==
  IF days = <<>> THEN tbl
  ELSE LET day == Head(days)
       IN  IF day \notin DOMAIN tbl THEN FillDays(tbl, Tail(days), sem, div)
           ELSE FillDays([tbl EXCEPT ![day] =
                            [s \in DOMAIN tbl[day] |-> HolidayText(sem, div)]],
                         Tail(days), sem, div)

\* the division table of the key is created (with the marking
\* ensure_div_table does itself)
PremarkEnsure ==
  /\ pc = "premark_ensure"
  /\ LET key == FdsKeys[ki]
     IN  dtables' = ensure_div_table(dtables, key[1], key[2],
                                     div_shift_map(faculties, key))
  /\ pc' = "premark_fill"
  /\ last' = NoOp("premark_ensure")
  /\ UNCHANGED <<CANONICAL_MAP, memo, flow, rng, exported, faculties,
                 FREE_DAY_SETTINGS, ftables,
                 ki, fi, ci, pending, ti, log>>

\* the selected days of the key are filled
PremarkFill ==
  /\ pc = "premark_fill"
  /\ LET key == FdsKeys[ki]
     IN  dtables' = [dtables EXCEPT ![key].table =
                       FillDays(@, FREE_DAY_SETTINGS[key], key[1], key[2])]
  /\ ki' = ki + 1
  /\ pc' = IF ki < Len(FdsKeys) THEN "premark_ensure" ELSE "next_faculty"
  /\ last' = NoOp("premark_fill")
  /\ UNCHANGED <<CANONICAL_MAP, memo, flow, rng, exported, faculties,
                 FREE_DAY_SETTINGS, ftables,
                 fi, ci, pending, ti, log>>

(***************************************************************************)
(* assign_subjects_for_faculty                                             *)
(***************************************************************************)

RECURSIVE Repeat(_, _)
Repeat(x, n) == IF n <= 0 THEN <<>> ELSE <<x>> \o Repeat(x, n - 1)

LockCall(entry, batch) ==
  [Type |-> entry.Type, Semester |-> entry.Semester, Division |-> entry.Division,
   Div_Shift |-> entry.Div_Shift, Subject |-> entry.Subject, Batch |-> batch]

RECURSIVE LabCallsOfBatches(_, _)
LabCallsOfBatches(entry, batches) ==
  IF batches = <<>> THEN <<>>
  ELSE Repeat(LockCall(entry, Head(batches)), entry.Num_Labs)
       \o LabCallsOfBatches(entry, Tail(batches))

RECURSIVE LabCalls(_)
LabCalls(subjects) ==
  IF subjects = <<>> THEN <<>>
  ELSE (IF Head(subjects).Type = "Lab"
          THEN LabCallsOfBatches(Head(subjects), BatchesOf(Head(subjects)))
          ELSE <<>>)
       \o LabCalls(Tail(subjects))

RECURSIVE TheoryCalls(_)
TheoryCalls(subjects) ==
  IF subjects = <<>> THEN <<>>
  ELSE (IF Head(subjects).Type = "Theory"
          THEN Repeat(LockCall(Head(subjects), ""), Head(subjects).Theory_Classes)
          ELSE <<>>)
       \o TheoryCalls(Tail(subjects))

\* variant of LockCalls that takes the obligations in input order
RECURSIVE CallsInInputOrder(_)
CallsInInputOrder(subjects) ==
  IF subjects = <<>> THEN <<>>
  ELSE LabCalls(<<Head(subjects)>>) \o TheoryCalls(<<Head(subjects)>>)
       \o CallsInInputOrder(Tail(subjects))

LockCalls_InputOrder(f) == CallsInInputOrder(f.Subjects)

\* the lock calls of one faculty in the order the two loops make them
LockCalls(f) == LabCalls(f.Subjects) \o TheoryCalls(f.Subjects)

CurCalls == LockCalls(faculties[fi])

\* variant of LockPassDone that lets the force loop start at once
LockPassDone_Always(i, calls) == TRUE

\* the force loop starts when both lock loops have ended
LockPassDone(i, calls) == i > Len(calls)

Done(op, r, call) ==
  [op |-> op, pass |-> r.pass, ok |-> r.ok, fi |-> fi,
   fname |-> faculties[fi].Name, fshift |-> faculties[fi].Shift,
   dshift |-> call.Div_Shift, sem |-> call.Semester, div |-> call.Division,
   subject |-> call.Subject,
   fday |-> r.fday, fs |-> r.fs, fs2 |-> r.fs2,
   dday |-> r.dday, ds |-> r.ds, ds2 |-> r.ds2]

\* the faculty's table is created if missing; pending starts empty
StartFaculty ==
  /\ pc = "next_faculty"
  /\ LET f == faculties[fi]
     IN  ftables' = IF f.Name \in DOMAIN ftables THEN ftables
                    ELSE (f.Name :> empty_table_for_shift(f.Shift)) @@ ftables
  /\ pending' = <<>>
  /\ ci' = 1
  /\ ti' = 1
  /\ pc' = "assign"
  /\ last' = NoOp("start_faculty")
  /\ UNCHANGED <<CANONICAL_MAP, memo, flow, rng, exported, faculties,
                 FREE_DAY_SETTINGS, dtables,
                 ki, fi, log>>

\* the tables after a theory placer returned r
PlacedTheory(r, fname, call, dt) ==
  LET key == <<call.Semester, call.Division>>
  IN  /\ ftables' = IF r.ok
                      THEN [ftables EXCEPT ![fname] =
                              WriteTheoryFac(@, r, call.Semester, call.Division,
                                             call.Subject)]
                      ELSE ftables
      /\ dtables' = IF r.ok
                      THEN [dt EXCEPT ![key].table =
                              WriteTheoryDiv(@, r, fname, call.Subject)]
                      ELSE dt

\* the tables after a lab placer returned r
PlacedLab(r, fname, call, dt) ==
  LET key == <<call.Semester, call.Division>>
  IN  /\ ftables' = IF r.ok
                      THEN [ftables EXCEPT ![fname] =
                              WriteLabFac(@, r, call.Semester, call.Division,
                                          call.Subject, call.Batch)]
                      ELSE ftables
      /\ dtables' = IF r.ok
                      THEN [dt EXCEPT ![key].table =
                              WriteLabDiv(@, r, fname, call.Subject, call.Batch)]
                      ELSE dt

\* one iteration of the lab loop
LockLabStep ==
  /\ pc = "assign"
  /\ ci <= Len(CurCalls)
  /\ CurCalls[ci].Type = "Lab"
  /\ LET f == faculties[fi]
         call == CurCalls[ci]
         key == <<call.Semester, call.Division>>
         dt == ensure_div_table(dtables, call.Semester, call.Division,
                                call.Div_Shift)
     IN  \E o \in lock_lab_returns(ftables[f.Name], dt[key].table,
                                   f.Shift, call.Div_Shift, f.Name, call.Semester,
                                   call.Division, call.Subject, call.Batch) :
         LET r == o.r IN
           /\ rng' = [rng EXCEPT !.pos = @ + o.draws]
           /\ PlacedLab(r, f.Name, call, dt)
           /\ pending' = IF r.ok THEN pending ELSE Append(pending, call)
           /\ last' = Done("lock_lab", r, call)
           /\ log' = Append(log, <<"lock_lab", fi, r.ok, call>>)
  /\ ci' = ci + 1
  /\ UNCHANGED <<CANONICAL_MAP, memo, flow, exported, faculties,
                 FREE_DAY_SETTINGS, pc, ki, fi, ti>>

\* one iteration of the theory loop
LockTheoryStep ==
  /\ pc = "assign"
  /\ ci <= Len(CurCalls)
  /\ CurCalls[ci].Type = "Theory"
  /\ LET f == faculties[fi]
         call == CurCalls[ci]
         key == <<call.Semester, call.Division>>
         dt == ensure_div_table(dtables, call.Semester, call.Division,
                                call.Div_Shift)
     IN  \E o \in lock_theory_returns(ftables[f.Name], dt[key].table,
                                      f.Shift, call.Div_Shift, f.Name, call.Semester,
                                      call.Division, call.Subject) :
         LET r == o.r IN
           /\ rng' = [rng EXCEPT !.pos = @ + o.draws]
           /\ PlacedTheory(r, f.Name, call, dt)
           /\ pending' = IF r.ok THEN pending ELSE Append(pending, call)
           /\ last' = Done("lock_theory", r, call)
           /\ log' = Append(log, <<"lock_theory", fi, r.ok, call>>)
  /\ ci' = ci + 1
  /\ UNCHANGED <<CANONICAL_MAP, memo, flow, exported, faculties,
                 FREE_DAY_SETTINGS, pc, ki, fi, ti>>

\* one iteration of the force loop, a Theory task
ForceTheoryStep ==
  /\ pc = "assign"
  /\ LockPassDone(ci, CurCalls)
  /\ ti <= Len(pending)
  /\ pending[ti].Type = "Theory"
  /\ LET f == faculties[fi]
         task == pending[ti]
         key == <<task.Semester, task.Division>>
         dt == ensure_div_table(dtables, task.Semester, task.Division,
                                task.Div_Shift)
     IN  \E r \in force_place_theory(ftables[f.Name], dt[key].table,
                                     f.Shift, task.Div_Shift, f.Name,
                                     task.Semester, task.Division, task.Subject) :
           /\ PlacedTheory(r, f.Name, task, dt)
           /\ last' = Done("force_place_theory", r, task)
           /\ log' = Append(log, <<"force_place_theory", fi, r.ok, task>>)
  /\ ti' = ti + 1
  /\ UNCHANGED <<CANONICAL_MAP, memo, flow, rng, exported, faculties,
                 FREE_DAY_SETTINGS, pc, ki, fi,
                 ci, pending>>

\* one iteration of the force loop, a Lab task
ForceLabStep ==
  /\ pc = "assign"
  /\ LockPassDone(ci, CurCalls)
  /\ ti <= Len(pending)
  /\ pending[ti].Type = "Lab"
  /\ LET f == faculties[fi]
         task == pending[ti]
         key == <<task.Semester, task.Division>>
         dt == ensure_div_table(dtables, task.Semester, task.Division,
                                task.Div_Shift)
     IN  \E r \in force_place_lab(ftables[f.Name], dt[key].table,
                                  f.Shift, task.Div_Shift, f.Name,
                                  task.Semester, task.Division, task.Subject,
                                  task.Batch) :
           /\ PlacedLab(r, f.Name, task, dt)
           /\ last' = Done("force_place_lab", r, task)
           /\ log' = Append(log, <<"force_place_lab", fi, r.ok, task>>)
  /\ ti' = ti + 1
  /\ UNCHANGED <<CANONICAL_MAP, memo, flow, rng, exported, faculties,
                 FREE_DAY_SETTINGS, pc, ki, fi,
                 ci, pending>>

\* variant of FinishFaculty in which a force call that returned False ends
\* the run
FinishFaculty_FatalForceFailure ==
  /\ pc = "assign"
  /\ ci > Len(CurCalls)
  /\ \/ ti > Len(pending)
     \/ last.op \in {"force_place_theory", "force_place_lab"} /\ ~last.ok
  /\ fi' = fi + 1
  /\ pc' = IF fi < Len(faculties) /\ ti > Len(pending) THEN "next_faculty" ELSE "done"
  /\ last' = NoOp("finish_faculty")
  /\ UNCHANGED <<CANONICAL_MAP, memo, flow, rng, exported, faculties,
                 FREE_DAY_SETTINGS, ftables,
                 dtables, ki, ci, pending, ti, log>>

\* variant of FinishFaculty after which main calls assign_subjects_for_faculty
\* for the same faculty again
FinishFaculty_SameFacultyAgain ==
  /\ pc = "assign"
  /\ ci > Len(CurCalls)
  /\ ti > Len(pending)
  /\ fi' = fi
  /\ pc' = IF Len(log) < 2 * MaxDemand THEN "next_faculty" ELSE "done"
  /\ last' = NoOp("finish_faculty")
  /\ UNCHANGED <<CANONICAL_MAP, memo, flow, rng, exported, faculties,
                 FREE_DAY_SETTINGS, ftables,
                 dtables, ki, ci, pending, ti, log>>

\* assign_subjects_for_faculty returns; main's loop moves on
FinishFaculty ==
  /\ pc = "assign"
  /\ ci > Len(CurCalls)
  /\ ti > Len(pending)
  /\ fi' = fi + 1
  /\ pc' = IF fi < Len(faculties) THEN "next_faculty" ELSE "done"
  /\ last' = NoOp("finish_faculty")
  /\ UNCHANGED <<CANONICAL_MAP, memo, flow, rng, exported, faculties,
                 FREE_DAY_SETTINGS, ftables,
                 dtables, ki, ci, pending, ti, log>>

\* the plan with every faculty's obligations removed
WithoutObligations(plan) ==
  [i \in DOMAIN plan |-> [plan[i] EXCEPT !.Subjects = <<>>]]

\* apply_free_day_markings_from_inputs as one call: every key of
\* FREE_DAY_SETTINGS, in order, is ensured and its selected days are filled
RECURSIVE apply_free_day_markings_from_inputs(_, _, _)
apply_free_day_markings_from_inputs(dt, plan, keys) ==
  IF keys = <<>> THEN dt
  ELSE LET key == Head(keys)
           ensured == ensure_div_table(dt, key[1], key[2], div_shift_map(plan, key))
           filled == [ensured EXCEPT ![key].table =
                        FillDays(@, FREE_DAY_SETTINGS[key], key[1], key[2])]
       IN  apply_free_day_markings_from_inputs(filled, plan, Tail(keys))

\* assign_subjects_for_faculty for faculties without obligations: the three
\* loops are empty, only a missing table is created
RECURSIVE assign_without_subjects(_, _)
assign_without_subjects(ft, plan) ==
  IF plan = <<>> THEN ft
  ELSE assign_without_subjects(
         IF Head(plan).Name \in DOMAIN ft THEN ft
         ELSE (Head(plan).Name :> empty_table_for_shift(Head(plan).Shift)) @@ ft,
         Tail(plan))

\* the marker and the driver are run once more, on the store the run left,
\* for the same faculties without obligations
ScheduleAgainWithoutObligations ==
  /\ pc = "done"
  /\ LET plan == WithoutObligations(faculties)
     IN  /\ dtables' = apply_free_day_markings_from_inputs(dtables, plan, FdsKeys)
         /\ ftables' = assign_without_subjects(ftables, plan)
  /\ pc' = "done_again"
  /\ last' = NoOp("schedule_again")
  /\ UNCHANGED <<CANONICAL_MAP, memo, flow, rng, exported, faculties,
                 FREE_DAY_SETTINGS, ki, fi, ci,
                 pending, ti, log>>

\* what main hands to export_all when the loop over the faculties has ended
export_all_args ==
  [ftables |-> ftables, dtables |-> dtables, faculties |-> faculties]

Next ==
  \/ PremarkEnsure
  \/ PremarkFill
  \/ StartFaculty
  \/ LockLabStep
  \/ LockTheoryStep
  \/ ForceTheoryStep
  \/ ForceLabStep
  \/ FinishFaculty
  \/ ScheduleAgainWithoutObligations

Spec == Init /\ [][Next]_vars

\* the position of main and of its loops
position == <<pc, ki, fi, ci, ti>>

\* main executes the statement it is at: every step of Next moves the
\* position in one of these ways, and one of them is possible exactly when
\* a step of Next is
MainAdvances ==
  \/ /\ pc = "premark_ensure"
     /\ pc' = "premark_fill"
     /\ UNCHANGED <<ki, fi, ci, ti>>
  \/ /\ pc = "premark_fill"
     /\ ki' = ki + 1
     /\ pc' \in {"premark_ensure", "next_faculty"}
     /\ UNCHANGED <<fi, ci, ti>>
  \/ /\ pc = "next_faculty"
     /\ pc' = "assign"
     /\ ci' = 1
     /\ ti' = 1
     /\ UNCHANGED <<ki, fi>>
  \/ /\ pc = "assign"
     /\ ci <= Len(CurCalls)
     /\ ci' = ci + 1
     /\ UNCHANGED <<pc, ki, fi, ti>>
  \/ /\ pc = "assign"
     /\ ci > Len(CurCalls)
     /\ ti <= Len(pending)
     /\ ti' = ti + 1
     /\ UNCHANGED <<pc, ki, fi, ci>>
  \/ /\ pc = "assign"
     /\ ci > Len(CurCalls)
     /\ ti > Len(pending)
     /\ fi' = fi + 1
     /\ pc' \in {"next_faculty", "done"}
     /\ UNCHANGED <<ki, ci, ti>>
  \/ /\ pc = "done"
     /\ pc' = "done_again"
     /\ UNCHANGED <<ki, fi, ci, ti>>

\* main is one sequential thread without blocking calls: the statement it
\* is at is executed
SpecFair == Init /\ [][Next]_vars /\ WF_position(MainAdvances)

(***************************************************************************)
(* The web adapter (app.py): POST /generate                                *)
(***************************************************************************)

\* a subject of the JSON body: the entry of the plan plus its Holidays
WebSubject(e, holidays) ==
  [Type |-> e.Type, Semester |-> e.Semester, Division |-> e.Division,
   Div_Shift |-> e.Div_Shift, Subject |-> e.Subject,
   Theory_Classes |-> e.Theory_Classes, Num_Labs |-> e.Num_Labs,
   Batches |-> e.Batches, Batches_Grouped |-> e.Batches_Grouped,
   Holidays |-> holidays]

\* the Holidays lists the requests carry; the form does not check the names
WebHolidayChoices ==
  {<<>>, <<"Wed", "Thu", "Fri", "Sat">>, <<"Sun", "Sat">>,
   <<"Mon", "Tue", "Wed", "Thu", "Fri", "Sat">>}

WebFirstSubjects ==
  {WebSubject(TheoryEntry(d, MORNING, "Maths", 1), h) :
     d \in {DivA, DivRaw}, h \in WebHolidayChoices}
  \cup {WebSubject(LabEntry(DivA, MORNING, "DSP", 1, <<"B1">>, FALSE), h) :
          h \in WebHolidayChoices}

WebMoreSubjects ==
  {WebSubject(TheoryEntry(DivA, MORNING, "DSP", 1), <<>>),
   WebSubject(TheoryEntry(DivA, LATE, "DSP", 1), <<"Tue", "Wed", "Thu", "Fri", "Sat">>)}

WebSecondSubjects ==
  {WebSubject(TheoryEntry(DivA, MORNING, "Maths", 1), <<>>)}

\* the "faculties" of the JSON bodies
WebPlans ==
  {<< [Name |-> "MSK", Shift |-> sh1, Subjects |-> s1],
      [Name |-> "PQR", Shift |-> MORNING, Subjects |-> s2] >> :
     sh1 \in Shifts,
     s1 \in {<<e>> : e \in WebFirstSubjects}
              \cup {<<e, m>> : e \in WebFirstSubjects, m \in WebMoreSubjects},
     s2 \in {<<>>} \cup {<<e>> : e \in WebSecondSubjects}}

\* ensure_div_table raises KeyError: the table is new and one of the
\* holidays of its division is no row of the table
EnsureRaises(dt, settings, sem, div) ==
  /\ <<sem, div>> \notin DOMAIN dt
  /\ <<sem, normalize_token(div)>> \in DOMAIN settings
  /\ \E i \in 1..Len(settings[<<sem, normalize_token(div)>>]) :
       settings[<<sem, normalize_token(div)>>][i] \notin DaySet

\* the new table ensure_div_table builds under the given settings
NewDivTable(settings, sem, div, div_shift) ==
  LET key == <<sem, normalize_token(div)>>
  IN  [shift |-> div_shift,
       table |-> MarkHolidays(empty_table_for_shift(div_shift),
                              IF key \in DOMAIN settings THEN settings[key] ELSE <<>>,
                              div_shift, sem, div)]

\* the loop that creates the tables of the request: [ft, dt, raised]
RECURSIVE WebEnsureSubjects(_, _, _)
WebEnsureSubjects(dt, settings, subjects) ==
  IF subjects = <<>> THEN [dt |-> dt, raised |-> FALSE]
  ELSE LET subj == Head(subjects)
           key == <<subj.Semester, subj.Division>>
       IN  IF EnsureRaises(dt, settings, subj.Semester, subj.Division)
             THEN [dt |-> dt, raised |-> TRUE]
           ELSE WebEnsureSubjects(
                  IF key \in DOMAIN dt THEN dt
                  ELSE (key :> NewDivTable(settings, subj.Semester, subj.Division,
                                           subj.Div_Shift)) @@ dt,
                  settings, Tail(subjects))

RECURSIVE WebInitTables(_, _, _, _)
WebInitTables(ft, dt, settings, plan) ==
  IF plan = <<>> THEN [ft |-> ft, dt |-> dt, raised |-> FALSE]
  ELSE LET f == Head(plan)
           ft1 == IF f.Name \in DOMAIN ft THEN ft
                  ELSE (f.Name :> empty_table_for_shift(f.Shift)) @@ ft
           sub == WebEnsureSubjects(dt, settings, f.Subjects)
       IN  IF sub.raised THEN [ft |-> ft1, dt |-> sub.dt, raised |-> TRUE]
           ELSE WebInitTables(ft1, sub.dt, settings, Tail(plan))

\* generate, from its first line to the call of the free-day marker: the
\* stores are replaced, the stream is seeded, FREE_DAY_SETTINGS is cleared
\* and filled, the tables are created; an exception ends the request with
\* the answer 500
GenerateSetup ==
  /\ pc = "generate"
  /\ LET settings == WebSettings(SubjectsOfPlan(faculties), <<>>)
         init == WebInitTables(<<>>, <<>>, settings, faculties)
     IN  /\ FREE_DAY_SETTINGS' = settings
         /\ ftables' = init.ft
         /\ dtables' = init.dt
         /\ pc' = IF init.raised THEN "error_500"
                  ELSE IF FdsKeys = <<>> THEN "next_faculty" ELSE "premark_ensure"
  /\ rng' = random_seed(rng)
  /\ ki' = 1
  /\ fi' = 1
  /\ ci' = 1
  /\ ti' = 1
  /\ pending' = <<>>
  /\ log' = <<>>
  /\ last' = NoOp("generate")
  /\ UNCHANGED <<CANONICAL_MAP, memo, flow, exported, faculties>>

\* export_all is called with the stores
ExportAll ==
  /\ pc = "done"
  /\ exported' = Append(exported, export_all_args)
  /\ pc' = "exported"
  /\ last' = NoOp("export_all")
  /\ UNCHANGED <<CANONICAL_MAP, memo, flow, rng, faculties, FREE_DAY_SETTINGS,
                 ftables, dtables, ki, fi, ci, pending, ti, log>>

\* the program is run a second time on the same input: main starts again
\* with the same answers to its prompts, or the same request is posted again
RunAgain ==
  /\ pc = "exported"
  /\ Len(exported) = 1
  /\ IF flow = "web"
       THEN /\ pc' = "generate"
            /\ UNCHANGED <<ftables, dtables, rng>>
       ELSE /\ pc' = IF FdsKeys = <<>> THEN "next_faculty" ELSE "premark_ensure"
            /\ ftables' = <<>>
            /\ dtables' = <<>>
            /\ rng' = random_seed(rng)
  /\ ki' = 1
  /\ fi' = 1
  /\ ci' = 1
  /\ ti' = 1
  /\ pending' = <<>>
  /\ log' = <<>>
  /\ last' = NoOp("run_again")
  /\ UNCHANGED <<CANONICAL_MAP, memo, flow, exported, faculties, FREE_DAY_SETTINGS>>

\* a run under the seeded stream, from main or from the web adapter
InitSeeded ==
  /\ CANONICAL_MAP = BuildCanonicalMap
  /\ memo = BuildMemo
  /\ flow \in {"cli", "web"}
  /\ IF flow = "cli"
       THEN /\ faculties \in {p \in FacultyPlans : PlanDemand(p) <= MaxDemand}
            /\ FREE_DAY_SETTINGS \in SettingsFor(faculties)
            /\ rng = random_seed(AnyOrder)
            /\ pc = IF FdsKeys = <<>> THEN "next_faculty" ELSE "premark_ensure"
       ELSE /\ faculties \in {p \in WebPlans : PlanDemand(p) <= MaxDemand}
            /\ FREE_DAY_SETTINGS = <<>>
            /\ rng = AnyOrder
            /\ pc = "generate"
  /\ ftables = <<>>
  /\ dtables = <<>>
  /\ ki = 1
  /\ fi = 1
  /\ ci = 1
  /\ pending = <<>>
  /\ ti = 1
  /\ last = NoOp("init")
  /\ log = <<>>
  /\ exported = <<>>

NextSeeded ==
  \/ GenerateSetup
  \/ PremarkEnsure
  \/ PremarkFill
  \/ StartFaculty
  \/ LockLabStep
  \/ LockTheoryStep
  \/ ForceTheoryStep
  \/ ForceLabStep
  \/ FinishFaculty
  \/ ExportAll
  \/ RunAgain

SpecSeeded == InitSeeded /\ [][NextSeeded]_vars

(***************************************************************************)
(* Two requests in two threads (app.run(..., threaded=True))               *)
(***************************************************************************)

\* the faculty of the other request; it has no subjects
OtherFaculty == [Name |-> "XYZ", Shift |-> MORNING, Subjects |-> <<>>]

\* the thread of another POST /generate runs between two statements of the
\* handler observed: it replaces the module-level stores, seeds the stream,
\* clears FREE_DAY_SETTINGS and creates the table of its faculty.  The
\* handler observed reads the stores anew at each call it makes, so it goes
\* on with the stores of the other request.
OtherGenerate ==
  /\ flow = "web"
  /\ Len(exported) = 1
  /\ pc \in {"next_faculty", "done"}
  /\ ftables' = WebInitTables(<<>>, <<>>, <<>>, <<OtherFaculty>>).ft
  /\ dtables' = <<>>
  /\ FREE_DAY_SETTINGS' = <<>>
  /\ rng' = random_seed(rng)
  /\ last' = NoOp("other_generate")
  /\ UNCHANGED <<CANONICAL_MAP, memo, flow, exported, faculties, pc, ki, fi, ci,
                 pending, ti, log>>

\* a request is handled alone, then once more while other requests arrive
InitConcurrent == InitSeeded /\ flow = "web"

NextConcurrent ==
  \/ NextSeeded
  \/ OtherGenerate

SpecConcurrent == InitConcurrent /\ [][NextConcurrent]_vars

(***************************************************************************)
(* The force placers called on their own.  force_place_theory and          *)
(* force_place_lab are module-level functions: a caller hands them a       *)
(* faculty grid and a division grid in any state of filling.  The grids    *)
(* are built as the program builds them (empty_table_for_shift,            *)
(* ensure_div_table with its holiday marking) and then hold earlier        *)
(* placements on the first days of the week.                               *)
(***************************************************************************)

\* most leading days of a grid that are filled completely
MaxBusyDays == 1

\* the teaching cells of the first k days, and the first m teaching cells of
\* the day after them, that are still empty get the text of an earlier
\* placement
Occupy(tbl, shift, k, m, text) ==
  LET slots == TeachingSlots(shift)
      taken(d, s) ==
        \E i \in 1..Len(DAYS) : \E j \in 1..Len(slots) :
          /\ DAYS[i] = d
          /\ slots[j] = s
          /\ (i <= k \/ (i = k + 1 /\ j <= m))
  IN  [d \in DaySet |->
        [s \in DOMAIN tbl[d] |->
           IF tbl[d][s] = "" /\ taken(d, s) THEN text ELSE tbl[d][s]]]

\* the one obligation whose pending task is forced
ForceEntries ==
  {TheoryEntry(DivA, dsh, "Maths", 1) : dsh \in Shifts}
  \cup {LabEntry(DivA, dsh, "DSP", 1, <<"B1">>, FALSE) : dsh \in Shifts}

ForceHolidayChoices == {<<>>, <<"Mon">>, <<"Mon", "Tue">>}

\* fillings of a grid: <<full leading days, cells of the next day>>
ForceFillings == (0..MaxBusyDays) \X {0, 1, 3}

InitForce ==
  /\ CANONICAL_MAP = BuildCanonicalMap
  /\ memo = BuildMemo
  /\ flow = "cli"
  /\ \E sh \in Shifts, e \in ForceEntries :
       faculties = << [Name |-> "MSK", Shift |-> sh, Subjects |-> <<e>>] >>
  /\ \E h \in ForceHolidayChoices :
       FREE_DAY_SETTINGS = IF h = <<>> THEN <<>> ELSE (<<Sem, DivA>> :> h)
  /\ \E ff \in ForceFillings :
       ftables = ("MSK" :> Occupy(empty_table_for_shift(faculties[1].Shift),
                                  faculties[1].Shift, ff[1], ff[2],
                                  TheoryFacText("Maths", Sem, DivB)))
  /\ \E gsh \in Shifts, df \in ForceFillings :
       LET made == ensure_div_table(<<>>, Sem, DivA, gsh)
       IN  dtables = [made EXCEPT ![<<Sem, DivA>>].table =
                        Occupy(@, gsh, df[1], df[2], TheoryDivText("Maths", "PQR"))]
  /\ pc = "assign"
  /\ ki = 1
  /\ fi = 1
  /\ ci = Len(CurCalls) + 1
  /\ pending = CurCalls
  /\ ti = 1
  /\ last = NoOp("init")
  /\ log = <<>>
  /\ rng = AnyOrder
  /\ exported = <<>>

NextForce ==
  \/ ForceTheoryStep
  \/ ForceLabStep

SpecForce == InitForce /\ [][NextForce]_vars

(***************************************************************************)
(* Properties                                                              *)
(***************************************************************************)

\* day is one of the days FREE_DAY_SETTINGS records for (sem, div)
HolidayOn(sem, div, day) ==
  /\ <<sem, div>> \in DOMAIN FREE_DAY_SETTINGS
  /\ \E i \in 1..Len(FREE_DAY_SETTINGS[<<sem, div>>]) :
       FREE_DAY_SETTINGS[<<sem, div>>][i] = day

\* canonical (start, end) of a label, from the label alone
Canon(label) == slot_label_to_canonical(label)

\* canonical time of every label, from the labels alone
CanonOfLabels == [l \in AllLabels |-> Canon(l)]

TeachingOrder(shift) == SelectSeq(SHIFT_SLOTS(shift), LAMBDA s : ~IsInert(s))

ShiftOfFaculty(name) ==
  faculties[CHOOSE i \in 1..Len(faculties) : faculties[i].Name = name].Shift

IsLockOp(op) == op \in {"lock_lab", "lock_theory"}
IsForceOp(op) == op \in {"force_place_theory", "force_place_lab"}

\* the division table the last placer call worked on
LastGrid == dtables[<<last.sem, last.div>>]

\* C1: once a cell of a faculty or division grid is non-empty, no step
\* replaces it with a different non-empty value.
C1_CellMonotonicity ==
  [][ /\ \A n \in DOMAIN ftables : \A d \in DaySet : \A s \in DOMAIN ftables[n][d] :
           (ftables[n][d][s] # "" /\ ftables'[n][d][s] # "")
             => ftables'[n][d][s] = ftables[n][d][s]
      /\ \A k \in DOMAIN dtables : \A d \in DaySet : \A s \in DOMAIN dtables[k].table[d] :
           (dtables[k].table[d][s] # "" /\ dtables'[k].table[d][s] # "")
             => dtables'[k].table[d][s] = dtables[k].table[d][s]
    ]_vars

\* the MERGE cells of one table: each has, as the previous teaching slot of
\* the same day, a cell holding a " Lab " placement, and none is first.  The
\* order is that of the table's shift, or of the shift that has the label
\* when an obligation's Div_Shift added a label the table's shift lacks.
MergeWellFormed(tbl, shift) ==
  \A d \in DaySet : \A s \in DOMAIN tbl[d] :
    tbl[d][s] = MERGE =>
      LET ord == IF s \in SlotSet(shift) THEN TeachingOrder(shift)
                 ELSE TeachingOrder(CHOOSE sh \in Shifts : s \in SlotSet(sh))
          i == CHOOSE j \in 1..Len(ord) : ord[j] = s
      IN  /\ i > 1
          /\ Contains(" Lab ", CellGet(tbl, d, ord[i - 1]))

\* C2: in every faculty and division grid, each MERGE cell has a " Lab "
\* placement in the previous teaching slot of the same day, and no MERGE cell
\* is the first teaching slot of a day.
C2_MergeWellFormed ==
  /\ \A n \in DOMAIN ftables : MergeWellFormed(ftables[n], ShiftOfFaculty(n))
  /\ \A k \in DOMAIN dtables : MergeWellFormed(dtables[k].table, dtables[k].shift)

\* a lab block is in a faculty grid and in a division grid
C2_Witness ==
  /\ last.op \in {"lock_lab", "force_place_lab"}
  /\ last.ok
  /\ ftables[last.fname][last.fday][last.fs2] = MERGE
  /\ LastGrid.table[last.dday][last.ds2] = MERGE

\* C3: every placement a LATE (10-5) faculty has in a MORNING (8-3) division
\* grid is in a slot whose canonical start is at least 600 minutes; 8-8:45
\* and 8:45-9:45 are never used for such a faculty.
C3_ShiftWindow ==
  \A k \in DOMAIN dtables :
    dtables[k].shift = MORNING =>
      \A d \in DaySet : \A s \in DOMAIN dtables[k].table[d] :
        (\E n \in DOMAIN ftables :
            /\ ShiftOfFaculty(n) = LATE
            /\ Contains("(" \o n \o ")", dtables[k].table[d][s]))
          => /\ Canon(s) # NoCanon
             /\ Canon(s)[1] >= 600
             /\ s \notin {"8-8:45", "8:45-9:45"}

\* the relaxed pass of force_place_lab has run for a LATE faculty on a
\* MORNING grid that already holds a lab of that faculty
C3_Witness ==
  /\ last.op = "force_place_lab"
  /\ last.pass \in {"relaxed", "none"}
  /\ last.fshift = LATE
  /\ LastGrid.shift = MORNING
  /\ \E d \in DaySet : \E s \in DOMAIN LastGrid.table[d] :
       Contains("(" \o last.fname \o ")", LastGrid.table[d][s])

\* C4: the faculty cell and the division cell written by one placement have
\* equal canonical (start, end) pairs; for a lab this holds for the first
\* slots and for the second (MERGE) slots.
C4_SlotEquivalence ==
  (IsLockOp(last.op) \/ IsForceOp(last.op)) /\ last.ok =>
    /\ ftables[last.fname][last.fday][last.fs] # ""
    /\ LastGrid.table[last.dday][last.ds] # ""
    /\ Canon(last.fs) # NoCanon
    /\ Canon(last.fs) = Canon(last.ds)
    /\ last.op \in {"lock_lab", "force_place_lab"} =>
         /\ ftables[last.fname][last.fday][last.fs2] = MERGE
         /\ LastGrid.table[last.dday][last.ds2] = MERGE
         /\ Canon(last.fs2) # NoCanon
         /\ Canon(last.fs2) = Canon(last.ds2)

\* a faculty of one shift has placed a lab in a grid of the other shift
C4_Witness ==
  /\ last.op = "lock_lab"
  /\ last.ok
  /\ last.fshift # last.dshift

C6_LockTheoryHonoursHolidays ==
  (last.op = "lock_theory" /\ last.ok) =>
    /\ ~HolidayOn(last.sem, last.div, last.fday)
    /\ ~HolidayOn(last.sem, last.div, last.dday)

\* C7: at the end of a run no faculty grid has a placement tagged
\* (Sem s Div d) on a holiday of (s, d), and the division grid of (s, d)
\* holds the sentinel in every teaching slot of each holiday.
C7_HolidayHonouredAtEnd ==
  pc = "done" =>
    \A k \in DOMAIN FREE_DAY_SETTINGS : \A d \in DaySet :
      HolidayOn(k[1], k[2], d) =>
        /\ \A n \in DOMAIN ftables : \A s \in DOMAIN ftables[n][d] :
             ~Contains("(Sem" \o k[1] \o " Div" \o k[2] \o ")", ftables[n][d][s])
        /\ k \in DOMAIN dtables =>
             \A s \in DOMAIN dtables[k].table[d] :
               (s \in SlotSet(dtables[k].shift) /\ ~IsInert(s))
                 => dtables[k].table[d][s] = HolidayText(k[1], k[2])

\* C8: after the free-day marker has run for a (sem, div), every break and
\* lunch cell of its grid on a holiday still holds its own slot label.
C8_InertCellsUntouched ==
  \A i \in 1..(ki - 1) :
    LET key == FdsKeys[i]
    IN  \A d \in DaySet :
          HolidayOn(key[1], key[2], d) =>
            \A s \in DOMAIN dtables[key].table[d] :
              IsInert(s) => dtables[key].table[d][s] = s

\* C9 as stated: no force call is made until every faculty of the input has
\* made all its lock calls.
C9_ForceAfterAllLocks ==
  \A i \in 1..Len(log) :
    IsForceOp(log[i][1]) =>
      \A n \in 1..Len(faculties) :
        Cardinality({j \in 1..(i - 1) : IsLockOp(log[j][1]) /\ log[j][2] = n})
          = Len(LabCalls(faculties[n].Subjects)) + Len(TheoryCalls(faculties[n].Subjects))

\* C9, amended: no force call for a faculty's pending task is made until
\* that faculty has made all its own lock calls.
C9_ForceAfterOwnLocks ==
  \A i \in 1..Len(log) :
    IsForceOp(log[i][1]) =>
      Cardinality({j \in 1..(i - 1) : IsLockOp(log[j][1]) /\ log[j][2] = log[i][2]})
        = Len(LabCalls(faculties[log[i][2]].Subjects))
          + Len(TheoryCalls(faculties[log[i][2]].Subjects))

\* a force call of the first faculty is followed by a lock call of the second
C9_Witness ==
  \E i \in 1..Len(log) : \E j \in (i + 1)..Len(log) :
    /\ IsForceOp(log[i][1])
    /\ log[i][2] = 1
    /\ IsLockOp(log[j][1])
    /\ log[j][2] = 2

\* C10: within one faculty's lock pass every lock_lab call comes before the
\* first lock_theory call, whatever the order of the obligations in the input.
C10_LabsBeforeTheory ==
  \A i \in 1..Len(log) : \A j \in (i + 1)..Len(log) :
    (log[i][1] = "lock_theory" /\ log[j][1] = "lock_lab") => log[i][2] # log[j][2]

\* a faculty whose input names a Theory obligation before a Lab obligation
\* has made its lock calls for both
C10_Witness ==
  /\ Len(faculties[1].Subjects) = 2
  /\ faculties[1].Subjects[1].Type = "Theory"
  /\ faculties[1].Subjects[2].Type = "Lab"
  /\ \E i \in 1..Len(log) : log[i][1] = "lock_theory" /\ log[i][2] = 1
  /\ \E i \in 1..Len(log) : log[i][1] = "lock_lab" /\ log[i][2] = 1

\* the batch labels an entry asks labs for: the first label alone when the
\* batches are grouped
EffectiveBatches(e) ==
  IF e.Type # "Lab" THEN {""}
  ELSE IF e.Batches_Grouped THEN {e.Batches[1]}
  ELSE {e.Batches[i] : i \in 1..Len(e.Batches)}

\* weekly instances an entry asks for, per batch
WeeklyCount(e) == IF e.Type = "Lab" THEN e.Num_Labs ELSE e.Theory_Classes

\* entry e asks for calls with the arguments c
EntryAsksFor(e, c) ==
  /\ e.Type = c.Type
  /\ e.Semester = c.Semester
  /\ e.Division = c.Division
  /\ e.Div_Shift = c.Div_Shift
  /\ e.Subject = c.Subject
  /\ c.Batch \in EffectiveBatches(e)

\* the text a placement of entry e for batch b leaves in the faculty grid
FacTextOf(e, b) ==
  IF e.Type = "Lab" THEN LabFacText(e.Subject, e.Semester, e.Division, b)
  ELSE TheoryFacText(e.Subject, e.Semester, e.Division)

RECURSIVE SumOver(_, _)
SumOver(f, S) ==
  IF S = {} THEN 0
  ELSE LET x == CHOOSE y \in S : TRUE IN f[x] + SumOver(f, S \ {x})

\* weekly instances the entries of faculty n ask for with the arguments c
DemandFor(n, c) ==
  LET subs == faculties[n].Subjects
  IN  SumOver([j \in 1..Len(subs) |->
                 IF EntryAsksFor(subs[j], c) THEN WeeklyCount(subs[j]) ELSE 0],
              1..Len(subs))

\* weekly instances the entries of faculty n ask for that would write text t
DemandForText(n, t) ==
  LET subs == faculties[n].Subjects
  IN  SumOver([j \in 1..Len(subs) |->
                 WeeklyCount(subs[j])
                   * Cardinality({b \in EffectiveBatches(subs[j]) :
                                    FacTextOf(subs[j], b) = t})],
              1..Len(subs))

\* arguments of the calls faculty n asks for or has made
CallArgsOf(n) ==
  {LockCall(faculties[n].Subjects[j], b) :
     j \in 1..Len(faculties[n].Subjects), b \in BatchNames \cup {""}}
  \cup {log[i][4] : i \in {k \in 1..Len(log) : log[k][2] = n}}

\* calls of faculty n with arguments c in the log, by operation and result
CountCalls(ops, n, c, results) ==
  Cardinality({i \in 1..Len(log) :
                 /\ log[i][1] \in ops
                 /\ log[i][2] = n
                 /\ log[i][4] = c
                 /\ log[i][3] \in results})

LockOps == {"lock_lab", "lock_theory"}
ForceOps == {"force_place_theory", "force_place_lab"}

\* C11: per faculty and per obligation, the lock calls made never exceed the
\* weekly demand (per batch, one batch when grouped) and equal it once the
\* faculty's lock pass is over; Lab obligations get lock_lab and Theory
\* obligations lock_theory; each failed lock has exactly one pending task and
\* each pending task gets exactly one force call; the placements in the
\* faculty grid never exceed the demand.
C11_DemandAccounting ==
  \A n \in 1..Len(faculties) :
    /\ \A c \in CallArgsOf(n) :
         LET locks == CountCalls(LockOps, n, c, BOOLEAN)
             failed == CountCalls(LockOps, n, c, {FALSE})
             forced == CountCalls(ForceOps, n, c, BOOLEAN)
             placed == CountCalls(LockOps \cup ForceOps, n, c, {TRUE})
             lockDone == n < fi \/ (n = fi /\ pc = "assign" /\ ci > Len(CurCalls))
         IN  /\ locks <= DemandFor(n, c)
             /\ lockDone => locks = DemandFor(n, c)
             /\ CountCalls({"lock_lab"}, n, c, BOOLEAN) > 0 => c.Type = "Lab"
             /\ CountCalls({"lock_theory"}, n, c, BOOLEAN) > 0 => c.Type = "Theory"
             /\ forced <= failed
             /\ n < fi => forced = failed
             /\ (n = fi /\ pc = "assign") =>
                  Cardinality({i \in 1..Len(pending) : pending[i] = c}) = failed
             /\ placed <= DemandFor(n, c)
    /\ faculties[n].Name \in DOMAIN ftables =>
         LET tbl == ftables[faculties[n].Name]
             texts == {tbl[x[1]][x[2]] :
                         x \in {y \in DaySet \X AllLabels : y[2] \in DOMAIN tbl[y[1]]}}
         IN  \A t \in texts \ ({"", MERGE} \cup AllLabels) :
               Cardinality({x \in DaySet \X AllLabels : CellGet(tbl, x[1], x[2]) = t})
                 <= DemandForText(n, t)

\* a run has ended in which a grouped two-batch lab entry was locked and a
\* failed lock was forced
C11_Witness ==
  /\ pc = "done"
  /\ \E j \in 1..Len(faculties[1].Subjects) :
       /\ faculties[1].Subjects[j].Batches_Grouped
       /\ Len(faculties[1].Subjects[j].Batches) = 2
  /\ \E i \in 1..Len(log) : log[i][1] \in ForceOps

\* the faculty at hand has exactly two obligations, both Theory, for one
\* (semester, division), on different subjects, one class each
TwoSubjectsOneDivision(f) ==
  /\ Len(f.Subjects) = 2
  /\ \A j \in 1..2 : f.Subjects[j].Type = "Theory" /\ f.Subjects[j].Theory_Classes = 1
  /\ f.Subjects[1].Semester = f.Subjects[2].Semester
  /\ f.Subjects[1].Division = f.Subjects[2].Division
  /\ f.Subjects[1].Subject # f.Subjects[2].Subject

\* days of the faculty grid on which some cell holds text t
DaysWithText(tbl, t) ==
  {day \in DaySet : \E lbl \in AllLabels : CellGet(tbl, day, lbl) = t}

\* non-holiday days of (sem, div)
OpenDays(sem, div) == {day \in DaySet : ~is_division_holiday(sem, div, day)}

\* the lock pass of such a faculty has just placed the second class
SecondOfTwoLocked ==
  /\ last.op = "lock_theory"
  /\ last.ok
  /\ ci = 3
  /\ log[Len(log)][1] = "lock_theory"
  /\ log[Len(log) - 1][1] = "lock_theory"
  /\ log[Len(log) - 1][3]
  /\ TwoSubjectsOneDivision(faculties[last.fi])
  /\ Cardinality(OpenDays(last.sem, last.div)) >= 2

\* C12: when a faculty has two one-class Theory obligations on different
\* subjects for one division that has at least two non-holiday days, the lock
\* pass puts the two classes on different days unless the second one was
\* placed by the fallback of lock_theory.
C12_DistinctDaysAcrossSubjects ==
  (SecondOfTwoLocked /\ last.pass = "A") =>
    LET f == faculties[last.fi]
        first == f.Subjects[1]
    IN  last.fday \notin
          DaysWithText(ftables[f.Name],
                       TheoryFacText(first.Subject, first.Semester, first.Division))

\* cells <<day, label>> in which two grids differ
ChangedCells(before, after) ==
  {x \in DaySet \X AllLabels :
     CellGet(before, x[1], x[2]) # CellGet(after, x[1], x[2])}

\* this step is a call of op that returned ok
JustCalled(op, ok) ==
  /\ Len(log') = Len(log) + 1
  /\ log'[Len(log')][1] = op
  /\ log'[Len(log')][3] = ok

\* C20: a successful lock_theory changes exactly one cell of the faculty's
\* grid, to '{subject} (Sem{s} Div{d})', and exactly one cell of the
\* division's grid, to '{subject} ({faculty})'; both cells were empty, lie on
\* the same day and have equal canonical times; no other cell of any grid
\* changes.
C20_LockTheoryFrame ==
  [][ JustCalled("lock_theory", TRUE) =>
        LET c == log'[Len(log')][4]
            fname == faculties[fi].Name
            key == <<c.Semester, c.Division>>
            dbefore == ensure_div_table(dtables, c.Semester, c.Division, c.Div_Shift)
            fch == ChangedCells(ftables[fname], ftables'[fname])
            dch == ChangedCells(dbefore[key].table, dtables'[key].table)
        IN  /\ Cardinality(fch) = 1
            /\ Cardinality(dch) = 1
            /\ \A x \in fch, y \in dch :
                 /\ CellGet(ftables[fname], x[1], x[2]) = ""
                 /\ CellGet(dbefore[key].table, y[1], y[2]) = ""
                 /\ ftables'[fname][x[1]][x[2]]
                      = c.Subject \o " (Sem" \o c.Semester \o " Div" \o c.Division \o ")"
                 /\ dtables'[key].table[y[1]][y[2]]
                      = c.Subject \o " (" \o fname \o ")"
                 /\ x[1] = y[1]
                 /\ Canon(x[2]) # NoCanon
                 /\ Canon(x[2]) = Canon(y[2])
            /\ DOMAIN ftables' = DOMAIN ftables
            /\ \A n \in DOMAIN ftables \ {fname} : ftables'[n] = ftables[n]
            /\ DOMAIN dtables' = DOMAIN dbefore
            /\ \A k \in DOMAIN dbefore \ {key} : dtables'[k] = dbefore[k]
            /\ dtables'[key].shift = dbefore[key].shift
    ]_vars

\* a lock_theory call has just succeeded while another faculty's grid and
\* another division's grid exist
C20_Witness ==
  /\ last.op = "lock_theory"
  /\ last.ok
  /\ Cardinality(DOMAIN ftables) = 2
  /\ Cardinality(DOMAIN dtables) = 2

\* log positions of the force calls that returned False
FailedForces ==
  {i \in 1..Len(log) : log[i][1] \in ForceOps /\ ~log[i][3]}

\* C15: a force placement that finds no position returns without writing a
\* cell and without ending the run: the grids are unchanged by the step, the
\* driver goes on with the next pending task, and at the end of the run
\* every pending task of every faculty has been force-attempted and every
\* faculty has made all its lock calls.
C15_ForceFailureNotFatal ==
  /\ [][ (JustCalled("force_place_theory", FALSE) \/ JustCalled("force_place_lab", FALSE)) =>
           /\ ftables' = ftables
           /\ dtables' = dtables
           /\ pc' = "assign"
           /\ fi' = fi
           /\ ti' = ti + 1 ]_vars
  /\ [](pc = "done" =>
          \A n \in 1..Len(faculties) :
            /\ Cardinality({i \in 1..Len(log) : log[i][2] = n /\ log[i][1] \in LockOps})
                 = Len(LockCalls(faculties[n]))
            /\ Cardinality({i \in 1..Len(log) : log[i][2] = n /\ log[i][1] \in ForceOps})
                 = Cardinality({i \in 1..Len(log) :
                                  log[i][2] = n /\ log[i][1] \in LockOps /\ ~log[i][3]}))

\* the run has ended after a force call failed, a later pending task of the
\* same faculty was force-attempted and a later faculty made a lock call
C15_Witness ==
  /\ pc = "done"
  /\ \E i \in FailedForces :
       /\ \E j \in (i + 1)..Len(log) : log[j][1] \in ForceOps /\ log[j][2] = log[i][2]
       /\ \E j \in (i + 1)..Len(log) : log[j][1] \in LockOps /\ log[j][2] > log[i][2]

\* the tasks a run's output names as unplaced: the output is what main hands
\* to export_all
ReportedUnplaced ==
  LET out == export_all_args
  IN  IF "unplacedTasks" \in DOMAIN out
        THEN {out.unplacedTasks[k] : k \in 1..Len(out.unplacedTasks)}
        ELSE {}

\* C16: at the end of a run every obligation instance whose lock call and
\* force call both failed is in the list of unplaced tasks of the run's
\* output.
C16_UnplacedReported ==
  pc = "done" => \A i \in FailedForces : log[i][4] \in ReportedUnplaced

\* C19: running the free-day marker and the driver for faculties without
\* obligations on the store a completed run left changes no cell of any
\* faculty or division grid.
C19_NoOpOnZeroObligations ==
  [][ (pc = "done" /\ pc' = "done_again") =>
        /\ DOMAIN ftables' = DOMAIN ftables
        /\ DOMAIN dtables' = DOMAIN dtables
        /\ \A n \in DOMAIN ftables : ChangedCells(ftables[n], ftables'[n]) = {}
        /\ \A k \in DOMAIN dtables :
             ChangedCells(dtables[k].table, dtables'[k].table) = {}
    ]_vars

\* C13: two runs of the program on the same Faculty Plan and the same
\* FREE_DAY_SETTINGS, each started from empty stores and from random.seed(7),
\* hand the same faculty grids and the same division grids to export_all.
C13_Reproducibility ==
  Len(exported) = 2 =>
    /\ exported[1].ftables = exported[2].ftables
    /\ exported[1].dtables = exported[2].dtables

\* both runs have exported, and the second one placed something by a lock
\* call after several samples of the stream
C13_Witness ==
  /\ Len(exported) = 2
  /\ rng.pos >= 3
  /\ \E i \in 1..Len(log) : log[i][1] \in LockOps /\ log[i][3]

\* some entry of FREE_DAY_SETTINGS names a day outside DAYS
HasUnknownHoliday ==
  \E key \in DOMAIN FREE_DAY_SETTINGS :
    \E i \in 1..Len(FREE_DAY_SETTINGS[key]) : FREE_DAY_SETTINGS[key][i] \notin DaySet

\* C14: when FREE_DAY_SETTINGS names a day outside Mon..Sat the run is not
\* ended by it: the day is skipped, and when the run exports, the rows of the
\* known holidays of each division grid hold the holiday text in every
\* teaching slot of the grid's shift.
C14_UnknownHolidaySkipped ==
  HasUnknownHoliday =>
    /\ pc # "error_500"
    /\ pc = "exported" =>
         \A key \in DOMAIN dtables :
           \A day \in DaySet :
             is_division_holiday(key[1], key[2], day) =>
               \A s \in SlotSet(dtables[key].shift) :
                 IsInert(s) \/ Contains(FREE_DAY_LABEL, dtables[key].table[day][s])

\* C17: the store holds one division grid per semester and normalized
\* division: two keys of the store with the same semester whose divisions
\* have the same normalized form are the same key.
C17_OneGridPerDivision ==
  \A k1 \in DOMAIN dtables, k2 \in DOMAIN dtables :
    (k1[1] = k2[1] /\ normalize_token(k1[2]) = normalize_token(k2[2])) => k1 = k2

\* C18: a request handled while another thread handles another request
\* exports what it exports when it is handled alone: the grid of each of its
\* faculties and the grid of each of its divisions are those of the solo run.
C18_RequestIsolation ==
  Len(exported) = 2 =>
    /\ \A i \in 1..Len(faculties) :
         /\ faculties[i].Name \in DOMAIN exported[2].ftables
         /\ exported[2].ftables[faculties[i].Name]
              = exported[1].ftables[faculties[i].Name]
    /\ \A k \in DOMAIN exported[1].dtables :
         /\ k \in DOMAIN exported[2].dtables
         /\ exported[2].dtables[k] = exported[1].dtables[k]

\* the placement texts a faculty cell can hold, each with the division it
\* names and the text of its division cell for faculty n
FacultyPlacements(n) ==
  {[fac |-> TheoryFacText(subj, Sem, div), key |-> <<Sem, div>>,
    div |-> TheoryDivText(subj, n)] : subj \in SubjectNames, div \in DivNames}
  \cup {[fac |-> LabFacText(subj, Sem, div, b), key |-> <<Sem, div>>,
         div |-> LabDivText(subj, n, b)] :
          subj \in SubjectNames, div \in DivNames, b \in BatchNames}

\* tbl holds text on day, in a slot of the canonical time of slot
HoldsAtTime(tbl, day, slot, text) ==
  \E x \in DOMAIN tbl[day] :
    /\ tbl[day][x] = text
    /\ Canon(x) # NoCanon
    /\ Canon(x) = Canon(slot)

\* C21: at the end of a run, every placement cell of a faculty grid tagged
\* (Sem s Div d) has, in the division grid of (s, d), on the same day and at
\* the slot of the same canonical time, the matching placement naming the
\* faculty, and every placement cell of a division grid has its faculty
\* cell in the same way.
C21_ConflictFreeMirroring ==
  pc = "done" =>
    \A n \in DOMAIN ftables : \A p \in FacultyPlacements(n) : \A d \in DaySet :
      /\ \A s \in DOMAIN ftables[n][d] :
           ftables[n][d][s] = p.fac =>
             /\ p.key \in DOMAIN dtables
             /\ HoldsAtTime(dtables[p.key].table, d, s, p.div)
      /\ p.key \in DOMAIN dtables =>
           \A s \in DOMAIN dtables[p.key].table[d] :
             dtables[p.key].table[d][s] = p.div =>
               HoldsAtTime(ftables[n], d, s, p.fac)

\* the grids lock_theory is called with offer a position: a day on which a
\* teaching slot of the faculty's shift and a teaching slot of the
\* obligation's division shift are both empty, have the same canonical time
\* and the division slot is admitted for the faculty's shift
TheoryPositionExists(ftbl, dtbl, fshift, dshift) ==
  LET canon == CanonOfLabels
  IN  \E day \in DaySet : \E fs \in SlotSet(fshift) : \E ds \in SlotSet(dshift) :
        /\ ~IsInert(fs)
        /\ ~IsInert(ds)
        /\ CellGet(ftbl, day, fs) = ""
        /\ CellGet(dtbl, day, ds) = ""
        /\ canon[fs] # NoCanon
        /\ canon[fs] = canon[ds]
        /\ (fshift = LATE /\ dshift = MORNING) => canon[ds][1] >= 600

\* C22: lock_theory returns False exactly when the grids it is called with
\* offer no day with an empty teaching faculty slot and an empty teaching
\* division slot of equal canonical time that is admitted for the faculty's
\* shift; when it returns False no cell of any grid has changed.
C22_LockTheoryCompleteness ==
  [][ (JustCalled("lock_theory", TRUE) \/ JustCalled("lock_theory", FALSE)) =>
        LET c == log'[Len(log')][4]
            f == faculties[fi]
            key == <<c.Semester, c.Division>>
            dbefore == ensure_div_table(dtables, c.Semester, c.Division, c.Div_Shift)
            failed == ~log'[Len(log')][3]
        IN  /\ failed <=> ~TheoryPositionExists(ftables[f.Name], dbefore[key].table,
                                                f.Shift, c.Div_Shift)
            /\ failed => (ftables' = ftables /\ dtables' = dbefore)
    ]_vars

\* a lock_theory call has failed for a faculty whose grid holds an earlier
\* placement, and the task is pending
C22_Witness ==
  /\ last.op = "lock_theory"
  /\ ~last.ok
  /\ \E i \in 1..(Len(log) - 1) : log[i][2] = last.fi /\ log[i][3]
  /\ Len(pending) > 0

\* pairs of adjacent slots of a shift, both teaching slots, in shift order
AdjacentTeachingPairs(shift) ==
  LET slots == SHIFT_SLOTS(shift)
      idx == {i \in 1..(Len(slots) - 1) : ~IsInert(slots[i]) /\ ~IsInert(slots[i + 1])}
      RECURSIVE build(_)
      build(i) ==
        IF i > Len(slots) - 1 THEN <<>>
        ELSE (IF i \in idx THEN << <<slots[i], slots[i + 1]>> >> ELSE <<>>)
             \o build(i + 1)
  IN  build(1)

\* the faculty slot a and the division slot b are empty on day, have one
\* canonical time (canon: label -> time), and b is admitted for the
\* faculty's shift
SameDayMatch(ftbl, dtbl, fshift, dshift, day, a, b, canon) ==
  /\ CellGet(ftbl, day, a) = ""
  /\ CellGet(dtbl, day, b) = ""
  /\ canon[a] # NoCanon
  /\ canon[a] = canon[b]
  /\ (fshift = LATE /\ dshift = MORNING) => canon[b][1] >= 600

\* positions <<day index, faculty index, division index>> open to the
\* same-day pass of force_place_theory
TightTheoryPositions(ftbl, dtbl, fshift, dshift, sem, div) ==
  LET fsl == TeachingOrder(fshift)
      dsl == TeachingOrder(dshift)
      canon == CanonOfLabels
  IN  {p \in (1..Len(DAYS)) \X (1..Len(fsl)) \X (1..Len(dsl)) :
         /\ ~HolidayOn(sem, div, DAYS[p[1]])
         /\ SameDayMatch(ftbl, dtbl, fshift, dshift, DAYS[p[1]], fsl[p[2]], dsl[p[3]],
                         canon)}

\* the same for force_place_lab, over pairs of adjacent teaching slots
TightLabPositions(ftbl, dtbl, fshift, dshift, sem, div) ==
  LET fps == AdjacentTeachingPairs(fshift)
      dps == AdjacentTeachingPairs(dshift)
      canon == CanonOfLabels
  IN  {p \in (1..Len(DAYS)) \X (1..Len(fps)) \X (1..Len(dps)) :
         /\ ~HolidayOn(sem, div, DAYS[p[1]])
         /\ SameDayMatch(ftbl, dtbl, fshift, dshift, DAYS[p[1]],
                         fps[p[2]][1], dps[p[3]][1], canon)
         /\ SameDayMatch(ftbl, dtbl, fshift, dshift, DAYS[p[1]],
                         fps[p[2]][2], dps[p[3]][2], canon)}

\* p comes no later than q in the order day, faculty slot, division slot
NoLater(p, q) ==
  \/ p[1] < q[1]
  \/ p[1] = q[1] /\ p[2] < q[2]
  \/ p[1] = q[1] /\ p[2] = q[2] /\ p[3] <= q[3]

FirstPosition(P) == CHOOSE p \in P : \A q \in P : NoLater(p, q)

\* C23: when the same-day pass of force_place_theory has a position (a
\* non-holiday day with an empty faculty teaching slot and an empty division
\* teaching slot of equal canonical time, admitted for the faculty's shift),
\* the call places the class at the first one in the order day Mon..Sat,
\* faculty slot in shift order, division slot in shift order; and the same
\* for force_place_lab over pairs of adjacent teaching slots.
C23_TightForceFirstMatch ==
  [][ /\ (JustCalled("force_place_theory", TRUE) \/ JustCalled("force_place_theory", FALSE)) =>
           LET c == log'[Len(log')][4]
               f == faculties[fi]
               key == <<c.Semester, c.Division>>
               fsl == TeachingOrder(f.Shift)
               dsl == TeachingOrder(c.Div_Shift)
               P == TightTheoryPositions(ftables[f.Name], dtables[key].table,
                                         f.Shift, c.Div_Shift, c.Semester, c.Division)
           IN  /\ last'.pass = "tight" <=> P # {}
               /\ P # {} =>
                    LET p == FirstPosition(P)
                    IN  /\ log'[Len(log')][3]
                        /\ ChangedCells(ftables[f.Name], ftables'[f.Name])
                             = {<<DAYS[p[1]], fsl[p[2]]>>}
                        /\ ChangedCells(dtables[key].table, dtables'[key].table)
                             = {<<DAYS[p[1]], dsl[p[3]]>>}
      /\ (JustCalled("force_place_lab", TRUE) \/ JustCalled("force_place_lab", FALSE)) =>
           LET c == log'[Len(log')][4]
               f == faculties[fi]
               key == <<c.Semester, c.Division>>
               fps == AdjacentTeachingPairs(f.Shift)
               dps == AdjacentTeachingPairs(c.Div_Shift)
               P == TightLabPositions(ftables[f.Name], dtables[key].table,
                                      f.Shift, c.Div_Shift, c.Semester, c.Division)
           IN  /\ last'.pass = "tight" <=> P # {}
               /\ P # {} =>
                    LET p == FirstPosition(P)
                    IN  /\ log'[Len(log')][3]
                        /\ ChangedCells(ftables[f.Name], ftables'[f.Name])
                             = {<<DAYS[p[1]], fps[p[2]][1]>>, <<DAYS[p[1]], fps[p[2]][2]>>}
                        /\ ChangedCells(dtables[key].table, dtables'[key].table)
                             = {<<DAYS[p[1]], dps[p[3]][1]>>, <<DAYS[p[1]], dps[p[3]][2]>>}
    ]_vars

\* the same-day pass of force_place_theory has placed a class, not on the
\* first day of the week and not in the first slot of the faculty's day
C23_Witness ==
  /\ last.op = "force_place_theory"
  /\ last.ok
  /\ last.pass = "tight"
  /\ last.fday = last.dday
  /\ last.fday # DAYS[1]
  /\ last.fs # TeachingOrder(last.fshift)[1]

\* some cell of the row of day holds the subject name, whatever the case
RowNamesSubject(tbl, day, subject) ==
  \E s \in DOMAIN tbl[day] : Contains(Lower(subject), Lower(tbl[day][s]))

\* C24: a placement made by the first loop of lock_theory or lock_lab is
\* never written on a day whose division grid already holds a cell
\* containing the subject name (case-insensitive); a placement on a division
\* day that already names the subject is made by a fallback or a force pass.
C24_SameSubjectAntiDuplication ==
  [][ \A op \in LockOps \cup ForceOps :
        JustCalled(op, TRUE) =>
          LET c == log'[Len(log')][4]
              key == <<c.Semester, c.Division>>
              dbefore == ensure_div_table(dtables, c.Semester, c.Division, c.Div_Shift)
              named == RowNamesSubject(dbefore[key].table, last'.dday, c.Subject)
          IN  /\ last'.pass = "A" => (op \in LockOps /\ ~named)
              /\ named => last'.pass \in {"fallback", "tight", "relaxed"}
    ]_vars

\* the first loop of a lock call has placed a further weekly instance of a
\* subject the division grid already holds on another day
C24_Witness ==
  /\ last.op \in LockOps
  /\ last.ok
  /\ last.pass = "A"
  /\ \E d \in DaySet \ {last.dday} :
       \E s \in DOMAIN LastGrid.table[d] :
         /\ ~Contains(FREE_DAY_LABEL, LastGrid.table[d][s])
         /\ Contains(Lower(last.subject), Lower(LastGrid.table[d][s]))

\* the holiday rows of the grid of key are marked: on every day that
\* FREE_DAY_SETTINGS records for the semester and the normalized division,
\* every teaching slot of the grid's shift holds the holiday text and no
\* teaching cell of the row is empty
HolidaysMarked(grid, key) ==
  \A d \in DaySet :
    HolidayOn(key[1], normalize_token(key[2]), d) =>
      /\ \A s \in SlotSet(grid.shift) :
           IsInert(s) \/ Contains(FREE_DAY_LABEL, grid.table[d][s])
      /\ \A s \in DOMAIN grid.table[d] : IsInert(s) \/ grid.table[d][s] # ""

\* C25: in a run of main and in a request to the web adapter, a lock or
\* force call that writes a placement into a division grid finds the
\* holiday rows of that grid marked: the sentinels are written before the
\* first placement and no teaching cell of a holiday row is empty when a
\* placement is written.
C25_PremarkPrecedesPlacement ==
  [][ \A op \in LockOps \cup ForceOps :
        JustCalled(op, TRUE) =>
          LET c == log'[Len(log')][4]
              key == <<c.Semester, c.Division>>
              dbefore == ensure_div_table(dtables, c.Semester, c.Division, c.Div_Shift)
          IN  /\ HolidaysMarked(dbefore[key], key)
              /\ HolidaysMarked(dtables'[key], key)
    ]_vars

\* a request has placed a class in the grid of a division whose code is not
\* in normalized form and which has holidays
C25_Witness ==
  /\ flow = "web"
  /\ last.op \in LockOps \cup ForceOps
  /\ last.ok
  /\ last.div = DivRaw
  /\ \E d \in DaySet : HolidayOn(last.sem, normalize_token(last.div), d)

\* weekly instances the entries of faculty n ask for, over all batches
InstancesOf(n) ==
  LET subs == faculties[n].Subjects
  IN  SumOver([j \in 1..Len(subs) |->
                 WeeklyCount(subs[j]) * Cardinality(EffectiveBatches(subs[j]))],
              1..Len(subs))

\* the cell text is a placement: a class, a lab block or its MERGE cell
IsPlacementText(t) ==
  /\ t # ""
  /\ t \notin AllLabels
  /\ ~Contains(FREE_DAY_LABEL, t)

\* C26: every scheduling run ends (main's loop over the faculties is left);
\* every step moves main forward (no statement is gone back to); during
\* the run each obligation instance causes at most one lock call and each
\* failed lock at most one force call; and a cell that holds a placement
\* keeps it in every later step of the run.
C26_Termination ==
  /\ <>(pc = "done")
  /\ [][MainAdvances]_position
  /\ [](\A n \in 1..Len(faculties) :
          /\ Cardinality({i \in 1..Len(log) : log[i][2] = n /\ log[i][1] \in LockOps})
               <= InstancesOf(n)
          /\ Cardinality({i \in 1..Len(log) : log[i][2] = n /\ log[i][1] \in ForceOps})
               <= Cardinality({i \in 1..Len(log) :
                                 log[i][2] = n /\ log[i][1] \in LockOps /\ ~log[i][3]}))
  /\ [][ pc' # "done_again" =>
           /\ \A n \in DOMAIN ftables : \A d \in DaySet : \A s \in DOMAIN ftables[n][d] :
                IsPlacementText(ftables[n][d][s]) =>
                  /\ n \in DOMAIN ftables'
                  /\ CellGet(ftables'[n], d, s) = ftables[n][d][s]
           /\ \A k \in DOMAIN dtables : \A d \in DaySet : \A s \in DOMAIN dtables[k].table[d] :
                IsPlacementText(dtables[k].table[d][s]) =>
                  /\ k \in DOMAIN dtables'
                  /\ CellGet(dtables'[k].table, d, s) = dtables[k].table[d][s]
     ]_vars

\* a run has ended after a lock call failed and its task was forced
C26_Witness ==
  /\ pc = "done"
  /\ \E i \in 1..Len(log) : log[i][1] \in LockOps /\ ~log[i][3]
  /\ \E i \in 1..Len(log) : log[i][1] \in ForceOps /\ log[i][3]
  /\ \E i \in 1..Len(log) : log[i][2] = 2

\* C27: in a run of main, when force_place_theory is called the grids offer
\* no same-day position any more (the failed lock_theory scanned every day,
\* and cells have only been filled since), so a successful call is never one
\* of the same-day pass: the faculty cell and the division cell it writes
\* lie on different days.
C27_ForcedTheoryDayDecoupled ==
  [][ (JustCalled("force_place_theory", TRUE) \/ JustCalled("force_place_theory", FALSE)) =>
        LET c == log'[Len(log')][4]
            f == faculties[fi]
            key == <<c.Semester, c.Division>>
            dbefore == ensure_div_table(dtables, c.Semester, c.Division, c.Div_Shift)
            fch == ChangedCells(ftables[f.Name], ftables'[f.Name])
            dch == ChangedCells(dbefore[key].table, dtables'[key].table)
        IN  /\ ~TheoryPositionExists(ftables[f.Name], dbefore[key].table,
                                     f.Shift, c.Div_Shift)
            /\ last'.pass # "tight"
            /\ log'[Len(log')][3] =>
                 /\ fch # {}
                 /\ dch # {}
                 /\ \A x \in fch, y \in dch : x[1] # y[1]
    ]_vars

\* force_place_theory has just placed a pending Theory task
C27_Witness ==
  /\ last.op = "force_place_theory"
  /\ last.ok
  /\ last.fday # last.dday

\* neither the subject nor the faculty's short name holds the texts
\* 'sem{s}' and 'div{d}' that day_has_division looks for
NamesAvoidDivisionTag(fname, subject, sem, div) ==
  \A n \in {fname, subject} :
    ~(Contains("sem" \o Lower(sem), Lower(n)) /\ Contains("div" \o Lower(div), Lower(n)))

\* C28: in a run of main in which neither the subject nor the faculty's short
\* name holds 'sem{s}' and 'div{d}' of the obligation's division, no call of
\* force_place_lab returns True: a lab instance whose lock_lab call failed
\* stays unplaced.
C28_ForcedLabsNeverSucceed ==
  [][ JustCalled("force_place_lab", TRUE) =>
        LET c == log'[Len(log')][4]
        IN  ~NamesAvoidDivisionTag(faculties[fi].Name, c.Subject,
                                   c.Semester, c.Division)
    ]_vars

\* force_place_lab has placed a task whose Div_Shift is the shift the
\* division's grid was created with (no run of main reaches such a state)
LabForcedUnderOwnShift ==
  /\ last.op = "force_place_lab"
  /\ last.ok
  /\ dtables[<<last.sem, last.div>>].shift = last.dshift

\* the shift a faculty's grid was created with: the Shift of the first entry
\* of that name
CreationShift(n) ==
  LET first == CHOOSE i \in 1..Len(faculties) :
                 /\ faculties[i].Name = n
                 /\ \A j \in 1..(i - 1) : faculties[j].Name # n
  IN  faculties[first].Shift

\* C29: in every state, every row of every faculty grid and of every
\* division grid has as its labels exactly the slots of the shift the grid
\* was created with.
C29_GridShapeInvariant ==
  /\ \A n \in DOMAIN ftables : \A d \in DaySet :
       DOMAIN ftables[n][d] = SlotSet(CreationShift(n))
  /\ \A k \in DOMAIN dtables : \A d \in DaySet :
       DOMAIN dtables[k].table[d] = SlotSet(dtables[k].shift)

\* a division grid has a row with a label that is no slot of its shift
DivisionRowHasForeignLabel ==
  \E k \in DOMAIN dtables : \E d \in DaySet :
    DOMAIN dtables[k].table[d] \ SlotSet(dtables[k].shift) # {}

\* a faculty grid has a row whose labels are not the slots of its shift
FacultyRowMisshapen ==
  \E n \in DOMAIN ftables : \E d \in DaySet :
    DOMAIN ftables[n][d] # SlotSet(CreationShift(n))

\* the cells <<day, label>> of tbl that hold one of the texts
CellsHolding(tbl, texts) ==
  {x \in DaySet \X AllLabels :
     /\ x[2] \in DOMAIN tbl[x[1]]
     /\ tbl[x[1]][x[2]] \in texts}

\* the MERGE cells of tbl that close a lab block opened by one of the texts:
\* the second slot of a consecutive pair whose first slot holds the text
MergeCellsOf(tbl, texts) ==
  {x \in CellsHolding(tbl, {MERGE}) :
     \E sh \in {MORNING, LATE} :
       \E i \in 1..Len(consecutive_pairs_for_shift(sh)) :
         LET p == consecutive_pairs_for_shift(sh)[i]
         IN  /\ p[2] = x[2]
             /\ CellGet(tbl, x[1], p[1]) \in texts}

\* the lab texts among the placement texts of faculty n
LabPlacements(n) ==
  {[fac |-> LabFacText(subj, Sem, div, b), key |-> <<Sem, div>>,
    div |-> LabDivText(subj, n, b)] :
     subj \in SubjectNames, div \in DivNames, b \in BatchNames}

\* the division's grid, an empty function per day while it does not exist
GridOf(key) ==
  IF key \in DOMAIN dtables THEN dtables[key].table ELSE [d \in DaySet |-> <<>>]

\* faculty n and division key hold as many cells of each other, placement
\* cells and MERGE cells alike
CountsMirrored(n, key) ==
  LET ps == {p \in FacultyPlacements(n) : p.key = key}
      ls == {p \in LabPlacements(n) : p.key = key}
  IN  /\ Cardinality(CellsHolding(ftables[n], {p.fac : p \in ps}))
           = Cardinality(CellsHolding(GridOf(key), {p.div : p \in ps}))
      /\ Cardinality(MergeCellsOf(ftables[n], {p.fac : p \in ls}))
           = Cardinality(MergeCellsOf(GridOf(key), {p.div : p \in ls}))

\* C30: in every state, for every faculty F and every division (s, d), the
\* grid of F has as many placement cells tagged (Sem s Div d) as the grid of
\* (s, d) has placement cells tagged (F), and as many MERGE cells closing
\* such a lab block.
C30_MirroredCounts ==
  \A n \in DOMAIN ftables : \A div \in DivNames : CountsMirrored(n, <<Sem, div>>)

\* the same during the run of main, before a second scheduling of the store
CountsMirroredDuringRun ==
  pc # "done_again" => C30_MirroredCounts

\* b is the second slot of the consecutive pair of shift sh that starts at a
IsPairOf(sh, a, b) ==
  \E i \in 1..Len(consecutive_pairs_for_shift(sh)) :
    consecutive_pairs_for_shift(sh)[i] = <<a, b>>

\* every cell of tbl whose text contains " Lab " starts a consecutive pair of
\* the table's shift whose second cell, on the same day, holds MERGE
LabBlocksWhole(tbl, shift) ==
  \A d \in DaySet : \A s \in DOMAIN tbl[d] :
    Contains(" Lab ", tbl[d][s]) =>
      \E b \in SlotSet(shift) :
        /\ IsPairOf(shift, s, b)
        /\ CellGet(tbl, d, b) = MERGE

\* C31: in every state, in every faculty grid and every division grid, each
\* cell whose text contains " Lab " is followed on the same day by a MERGE
\* cell in the next slot of the grid's shift, and the two slots are a
\* consecutive pair of that shift (teaching slots, nothing between them).
C31_LabBlockIntegrity ==
  /\ \A n \in DOMAIN ftables : LabBlocksWhole(ftables[n], ShiftOfFaculty(n))
  /\ \A k \in DOMAIN dtables : LabBlocksWhole(dtables[k].table, dtables[k].shift)

\* the same with the pair taken in the shift that has the label, for the
\* labels an obligation's Div_Shift added to a grid
LabBlocksWholeInLabelShift ==
  /\ \A n \in DOMAIN ftables : LabBlocksWhole(ftables[n], ShiftOfFaculty(n))
  /\ \A k \in DOMAIN dtables : \A d \in DaySet : \A s \in DOMAIN dtables[k].table[d] :
       Contains(" Lab ", dtables[k].table[d][s]) =>
         \E sh \in Shifts : \E b \in SlotSet(sh) :
           /\ s \in SlotSet(dtables[k].shift) => sh = dtables[k].shift
           /\ IsPairOf(sh, s, b)
           /\ CellGet(dtables[k].table, d, b) = MERGE

\* the clock reading of every built-in label, as written on the label:
\* <<start hour, start minute, end hour, end minute>>
ClockEndpoints ==
  [l \in AllLabels |->
     CASE l = "8-8:45"                  -> <<8, 0, 8, 45>>
       [] l = "8:45-9:45"               -> <<8, 45, 9, 45>>
       [] l = "9:45-10:00 Short Break"  -> <<9, 45, 10, 0>>
       [] l = "10:00-11:00"             -> <<10, 0, 11, 0>>
       [] l = "11:00-12:00"             -> <<11, 0, 12, 0>>
       [] l = "12:00-12:45 Lunch Break" -> <<12, 0, 12, 45>>
       [] l = "12:45-1:45"              -> <<12, 45, 1, 45>>
       [] l = "1:45-2:45"               -> <<1, 45, 2, 45>>
       [] l = "2:45-3:00 Short Break"   -> <<2, 45, 3, 0>>
       [] l = "3-4"                     -> <<3, 0, 4, 0>>
       [] l = "4-5"                     -> <<4, 0, 5, 0>>]

\* minutes of a clock reading: an hour before 8 is an afternoon hour
MinutesOfClock(hour, minute) ==
  (IF hour < 8 THEN hour + 12 ELSE hour) * 60 + minute

\* C32: CANONICAL_MAP gives every label of the two built-in shifts the pair
\* <<start, end>> of its clock endpoints, an hour below 8 read as hour + 12
\* and the value being hour * 60 + minute; within a shift every pair has
\* start < end, no two labels have the same pair and no two pairs overlap;
\* labels of the two shifts with the same clock interval have equal pairs.
C32_CanonicalSlotArithmetic ==
  /\ \A sh \in Shifts :
       LET cm == CANONICAL_MAP[sh]
       IN  /\ DOMAIN cm = SlotSet(sh)
           /\ \A l \in SlotSet(sh) :
                LET e == ClockEndpoints[l]
                IN  /\ cm[l] = <<MinutesOfClock(e[1], e[2]), MinutesOfClock(e[3], e[4])>>
                    /\ cm[l][1] < cm[l][2]
           /\ \A a \in SlotSet(sh), b \in SlotSet(sh) :
                a # b => /\ cm[a] # cm[b]
                         /\ (cm[a][2] <= cm[b][1] \/ cm[b][2] <= cm[a][1])
  /\ \A a \in SlotSet(MORNING), b \in SlotSet(LATE) :
       ClockEndpoints[a] = ClockEndpoints[b]
         => CANONICAL_MAP[MORNING][a] = CANONICAL_MAP[LATE][b]

\* a placement across the two shifts has been made in an afternoon slot,
\* whose hours are below 8 on the label
C32_Witness ==
  /\ last.ok
  /\ last.fshift # last.dshift
  /\ ClockEndpoints[last.fs][1] < 8
  /\ CANONICAL_MAP[last.fshift][last.fs] = CANONICAL_MAP[last.dshift][last.ds]

====
